---- MODULE Spec2Model ----
(***************************************************************************)
(* riplog: a query engine over NGINX access logs.                          *)
(*                                                                         *)
(* The model follows the sources:                                          *)
(*   src/src/nginx.rs   tokenizer, reusable record, typed accessors,       *)
(*                      table definition                                   *)
(*   src/src/parser.rs  query AST, compute_show                            *)
(*   src/src/query.rs   validation, QueryEvaluator, reducers, formatter    *)
(*   src/src/main.rs    the driver loop                                    *)
(*                                                                         *)
(* Bytes are one-character strings, byte slices are sequences of them.     *)
(* An Option<T> is a sequence of length 0 (None) or 1 (Some).              *)
(***************************************************************************)
EXTENDS Integers, Sequences, FiniteSets, TLC

VARIABLES
    query,            \* RipLogQuery (parser.rs 202-209)
    stream,           \* the lines the reader will yield, in order
    pos,              \* number of lines read so far
    record,           \* the reusable BinaryNginxLogRecord
    validation,       \* result of validate_riplog_query: "" before, "ok", or the offending symbol
    aggregate,        \* QueryEvaluator.aggregate
    printed_count,    \* QueryEvaluator.printed_count
    group_map,        \* QueryEvaluator.group_map : keys -> reducer
    global_reducer,   \* QueryEvaluator.global_reducer
    fields,           \* RecordFormatter.fields
    sort,             \* RecordFormatter.sort
    out,              \* what was printed on standard output, line by line
    passed,           \* ghost: number of records for which apply_filters returned true
    pc,               \* position of the driver
    panic,            \* "" or the reason the process panicked
    returned          \* ghost: what the last typed accessor called on the record returned

vars == <<query, stream, pos, record, validation, aggregate, printed_count,
          group_map, global_reducer, fields, sort, out, passed, pc, panic, returned>>

(***************************************************************************)
(* Bounds of the model.                                                    *)
(***************************************************************************)
MaxLines == 2
MaxShowLen == 2
MaxGroupLen == 2

(***************************************************************************)
(* Option and byte helpers.                                                *)
(***************************************************************************)
None == <<>>
Some(v) == <<v>>
IsSome(o) == Len(o) > 0
IsNone(o) == Len(o) = 0
Unwrap(o) == o[1]

Min(a, b) == IF a < b THEN a ELSE b
Max(a, b) == IF a > b THEN a ELSE b

\* The printable ASCII bytes in code order, from 32 (space) to 126 (the
\* backquote, code 96, is not used by the model: "bq" holds its place).
AsciiTable ==
    <<" ", "!", "\"", "#", "$", "%", "&", "'", "(", ")", "*", "+", ",", "-", ".", "/",
      "0", "1", "2", "3", "4", "5", "6", "7", "8", "9", ":", ";", "<", "=", ">", "?",
      "@", "A", "B", "C", "D", "E", "F", "G", "H", "I", "J", "K", "L", "M", "N", "O",
      "P", "Q", "R", "S", "T", "U", "V", "W", "X", "Y", "Z", "[", "\\", "]", "^", "_",
      "bq", "a", "b", "c", "d", "e", "f", "g", "h", "i", "j", "k", "l", "m", "n", "o",
      "p", "q", "r", "s", "t", "u", "v", "w", "x", "y", "z", "{", "|", "}", "~">>

ByteCode(c) ==
    IF c = "\n" THEN 10
    ELSE 31 + (CHOOSE i \in 1..Len(AsciiTable) : AsciiTable[i] = c)

IsDigit(c) == ByteCode(c) >= 48 /\ ByteCode(c) <= 57
DigitVal(c) == ByteCode(c) - 48
DigitChar(d) == AsciiTable[d + 17]

\* &s[a..b] of Rust: 0-based, half open; it panics unless a <= b <= len.
SliceOk(s, a, b) == 0 <= a /\ a <= b /\ b <= Len(s)
Slice(s, a, b) == SubSeq(s, a + 1, b)

\* The order of two byte slices ([u8] Ord): -1, 0 or 1.
RECURSIVE CmpBytes(_, _)
CmpBytes(a, b) ==
    IF Len(a) = 0 /\ Len(b) = 0 THEN 0
    ELSE IF Len(a) = 0 THEN -1
    ELSE IF Len(b) = 0 THEN 1
    ELSE IF ByteCode(Head(a)) < ByteCode(Head(b)) THEN -1
    ELSE IF ByteCode(Head(a)) > ByteCode(Head(b)) THEN 1
    ELSE CmpBytes(Tail(a), Tail(b))

\* u64::to_string
RECURSIVE U64ToString(_)
U64ToString(n) ==
    IF n < 10 THEN <<DigitChar(n)>>
    ELSE Append(U64ToString(n \div 10), DigitChar(n % 10))

\* str::contains: some window of hay equals needle.
Contains(hay, needle) ==
    \E i \in 0..(Len(hay) - Len(needle)) : Slice(hay, i, i + Len(needle)) = needle

(***************************************************************************)
(* The tokenizer (nginx.rs).                                               *)
(***************************************************************************)
\* index_of: the 0-based index of the first occurrence of ch, or -1 (None).
index_of(vec, ch) ==
    IF \E i \in 1..Len(vec) : vec[i] = ch
    THEN (CHOOSE i \in 1..Len(vec) : vec[i] = ch /\ \A j \in 1..(i - 1) : vec[j] # ch) - 1
    ELSE -1

\* The cleared parsed cache. A slot is None (not decoded yet) or Some(value).
Columns == <<"ip", "date", "method", "path", "query", "status", "bytes", "referrer", "user_agent">>
ColumnSet == {Columns[i] : i \in 1..Len(Columns)}
EmptyParsed == [c \in ColumnSet |-> None]

\* BinaryNginxLogRecord::empty
EmptyRecord ==
    [ip |-> <<>>, date |-> <<>>, method |-> <<>>, path |-> <<>>, query |-> <<>>,
     status |-> <<>>, bytes |-> <<>>, referrer |-> <<>>, user_agent |-> <<>>,
     parsed_record |-> EmptyParsed]

\* The request line split into (method, path, query).
SplitRequest(request) ==
    LET req_space_idx == index_of(request, " ") IN
    IF req_space_idx >= 0 THEN
        LET method == Slice(request, 0, req_space_idx)
            req_working == Slice(request, req_space_idx + 1, Len(request))
            sp == index_of(req_working, " ")
            qu == index_of(req_working, "?")
        IN  \* &req_working[qu..sp] panics when the '?' follows the space
            IF qu >= 0 /\ sp >= 0 /\ qu > sp THEN [ok |-> FALSE, method |-> <<>>, path |-> <<>>, query |-> <<>>]
            ELSE [ok |-> TRUE,
                  method |-> method,
                  path |-> IF qu >= 0 THEN Slice(req_working, 0, qu)
                           ELSE IF sp >= 0 THEN Slice(req_working, 0, sp)
                           ELSE req_working,
                  query |-> IF qu >= 0
                            THEN IF sp >= 0 THEN Slice(req_working, qu, sp)
                                 ELSE Slice(req_working, qu, Len(req_working))
                            ELSE <<>>]
    ELSE [ok |-> TRUE, method |-> <<>>, path |-> request, query |-> <<>>]

TokenizePanic == [ok |-> FALSE, rec |-> EmptyRecord]

\* The tail of the line after the request: status, bytes, referrer, user_agent.
TokenizeTail(working, ip, date, req) ==
    LET s1 == index_of(working, " ") IN
    IF s1 < 0 THEN TokenizePanic ELSE
    LET status == Slice(working, 0, s1)
        w1 == Slice(working, s1 + 1, Len(working))
        s2 == index_of(w1, " ")
    IN
    IF s2 < 0 THEN TokenizePanic ELSE
    LET bytes == Slice(w1, 0, s2)
        w2 == Slice(w1, s2 + 1, Len(w1))
        s3 == index_of(w2, " ")
    IN
    IF s3 < 0 \/ ~SliceOk(w2, 1, s3 - 1) THEN TokenizePanic ELSE
    LET referrer == Slice(w2, 1, s3 - 1)
        w3 == Slice(w2, s3 + 1, Len(w2))
    IN
    IF ~SliceOk(w3, 1, Len(w3) - 1) THEN TokenizePanic ELSE
    [ok |-> TRUE,
     rec |-> [ip |-> ip, date |-> date, method |-> req.method, path |-> req.path,
              query |-> req.query, status |-> status, bytes |-> bytes,
              referrer |-> referrer,
              user_agent |-> Slice(w3, 1, Len(w3) - 1),
              parsed_record |-> EmptyParsed]]

\* read_log_record_binary: the record after tokenizing buf, or a panic (an
\* unwrap of a delimiter that is not there, or a slice out of range).
read_log_record_binary(buf) ==
    LET s1 == index_of(buf, " ") IN
    IF s1 < 0 THEN TokenizePanic ELSE
    LET ip == Slice(buf, 0, s1)
        w1 == Slice(buf, s1 + 1, Len(buf))
        s2 == index_of(w1, " ")
    IN
    IF s2 < 0 THEN TokenizePanic ELSE
    LET w2 == Slice(w1, s2 + 1, Len(w1))
        s3 == index_of(w2, " ")
    IN
    IF s3 < 0 THEN TokenizePanic ELSE
    LET w3 == Slice(w2, s3 + 1, Len(w2))
        brace_idx == index_of(w3, "]")
    IN
    IF brace_idx < 0 \/ ~SliceOk(w3, 1, brace_idx) \/ ~SliceOk(w3, brace_idx + 3, Len(w3))
    THEN TokenizePanic ELSE
    LET date == Slice(w3, 1, brace_idx)
        w4 == Slice(w3, brace_idx + 3, Len(w3))
        quote_idx == index_of(w4, "\"")
    IN
    IF quote_idx < 0 \/ ~SliceOk(w4, quote_idx + 2, Len(w4)) THEN TokenizePanic ELSE
    LET request == Slice(w4, 0, quote_idx)
        w5 == Slice(w4, quote_idx + 2, Len(w4))
        req == SplitRequest(request)
    IN
    IF ~req.ok THEN TokenizePanic ELSE TokenizeTail(w5, ip, date, req)

(***************************************************************************)
(* Decoders of the typed accessors (nginx.rs 162-234).                     *)
(***************************************************************************)
\* str::parse::<u64>: an optional '+', then one or more digits. (The values
\* of the model stay far below 2^64, where parse fails on overflow.)
RECURSIVE DigitsValue(_, _)
DigitsValue(s, acc) ==
    IF Len(s) = 0 THEN acc ELSE DigitsValue(Tail(s), acc * 10 + DigitVal(Head(s)))

AllDigits(s) == Len(s) > 0 /\ \A i \in 1..Len(s) : IsDigit(s[i])

ParseU64(s) ==
    LET digits == IF Len(s) > 0 /\ Head(s) = "+" THEN Tail(s) ELSE s IN
    IF AllDigits(digits) THEN Some(DigitsValue(digits, 0)) ELSE None

MonthNames ==
    << <<"J","a","n">>, <<"F","e","b">>, <<"M","a","r">>, <<"A","p","r">>,
       <<"M","a","y">>, <<"J","u","n">>, <<"J","u","l">>, <<"A","u","g">>,
       <<"S","e","p">>, <<"O","c","t">>, <<"N","o","v">>, <<"D","e","c">> >>

MonthOf(s) ==
    IF \E m \in 1..12 : MonthNames[m] = s THEN CHOOSE m \in 1..12 : MonthNames[m] = s ELSE 0

IsLeap(y) == (y % 4 = 0 /\ y % 100 # 0) \/ y % 400 = 0
DaysInMonth(y, m) ==
    IF m = 2 THEN (IF IsLeap(y) THEN 29 ELSE 28)
    ELSE IF m \in {4, 6, 9, 11} THEN 30 ELSE 31

\* Days since 1970-01-01 of a civil date (years from 1970 on).
DaysFromCivil(y, m, d) ==
    LET y2 == IF m <= 2 THEN y - 1 ELSE y
        era == y2 \div 400
        yoe == y2 - era * 400
        mp == IF m > 2 THEN m - 3 ELSE m + 9
        doy == (153 * mp + 2) \div 5 + d - 1
        doe == yoe * 365 + yoe \div 4 - yoe \div 100 + doy
    IN era * 146097 + doe - 719468

\* The civil date <<y, m, d>> of a number of days since 1970-01-01.
CivilFromDays(z) ==
    LET z2 == z + 719468
        era == z2 \div 146097
        doe == z2 - era * 146097
        yoe == (doe - doe \div 1460 + doe \div 36524 - doe \div 146096) \div 365
        doy == doe - (365 * yoe + yoe \div 4 - yoe \div 100)
        mp == (5 * doy + 2) \div 153
        d == doy - (153 * mp + 2) \div 5 + 1
        m == IF mp < 10 THEN mp + 3 ELSE mp - 9
        y == yoe + era * 400
    IN <<IF m <= 2 THEN y + 1 ELSE y, m, d>>

\* DateTime::parse_from_str(s, "%d/%b/%Y:%H:%M:%S %z").ok(), as seconds since
\* the epoch: dd/Mon/yyyy:HH:MM:SS +zzzz with two-digit fields, a four-digit
\* year and a signed four-digit offset; anything else fails to decode.
ParseDate(s) ==
    IF Len(s) # 26 THEN None
    ELSE IF ~(/\ s[3] = "/" /\ s[7] = "/" /\ s[12] = ":" /\ s[15] = ":" /\ s[18] = ":"
              /\ s[21] = " " /\ s[22] \in {"+", "-"}
              /\ \A i \in {1, 2, 8, 9, 10, 11, 13, 14, 16, 17, 19, 20, 23, 24, 25, 26} : IsDigit(s[i]))
    THEN None
    ELSE
    LET d == DigitsValue(SubSeq(s, 1, 2), 0)
        m == MonthOf(SubSeq(s, 4, 6))
        y == DigitsValue(SubSeq(s, 8, 11), 0)
        hh == DigitsValue(SubSeq(s, 13, 14), 0)
        mi == DigitsValue(SubSeq(s, 16, 17), 0)
        ss == DigitsValue(SubSeq(s, 19, 20), 0)
        oh == DigitsValue(SubSeq(s, 23, 24), 0)
        om == DigitsValue(SubSeq(s, 25, 26), 0)
        off == (IF s[22] = "-" THEN -1 ELSE 1) * (oh * 3600 + om * 60)
    IN
    IF m = 0 \/ y < 1971 \/ y > 2036 \/ d < 1 \/ d > DaysInMonth(y, m)
       \/ hh > 23 \/ mi > 59 \/ ss > 59 \/ om > 59
    THEN None
    ELSE Some(DaysFromCivil(y, m, d) * 86400 + hh * 3600 + mi * 60 + ss - off)

Pad2(n) == <<DigitChar(n \div 10), DigitChar(n % 10)>>

\* DateTime<Local>::to_string with the local zone being UTC:
\* "yyyy-mm-dd HH:MM:SS +00:00".
DateToString(t) ==
    LET days == t \div 86400
        rem == t % 86400
        c == CivilFromDays(days)
    IN U64ToString(c[1]) \o <<"-">> \o Pad2(c[2]) \o <<"-">> \o Pad2(c[3]) \o <<" ">>
       \o Pad2(rem \div 3600) \o <<":">> \o Pad2((rem % 3600) \div 60) \o <<":">>
       \o Pad2(rem % 60) \o <<" ", "+", "0", "0", ":", "0", "0">>

(***************************************************************************)
(* The reusable record's typed accessors (nginx.rs 151-260). Each returns  *)
(* the record with its cache slot filled, the value, and whether the       *)
(* accessor panicked. A cache slot is None until the first call.           *)
(***************************************************************************)
Accessed(rec, val) == [rec |-> rec, val |-> val, panic |-> FALSE]
AccessPanic(rec) == [rec |-> rec, val |-> None, panic |-> TRUE]

\* if slot.is_some() { slot } else { slot = Some(decoded); slot }
Cached(rec, c, decoded) ==
    IF IsSome(rec.parsed_record[c])
    THEN Accessed(rec, Unwrap(rec.parsed_record[c]))
    ELSE Accessed([rec EXCEPT !.parsed_record[c] = Some(decoded)], decoded)

\* if bytes.len() < 1 { None } else { Some(String) }
OptText(bytes) == IF Len(bytes) < 1 THEN None ELSE Some(bytes)
OptInt(bytes) == IF Len(bytes) < 1 THEN None ELSE ParseU64(bytes)

parsed_ip(rec) == Cached(rec, "ip", Some(rec.ip))
parsed_path(rec) == Cached(rec, "path", Some(rec.path))
parsed_method(rec) == Cached(rec, "method", OptText(rec.method))
parsed_query(rec) == Cached(rec, "query", OptText(rec.query))
parsed_referrer(rec) == Cached(rec, "referrer", OptText(rec.referrer))
parsed_user_agent(rec) == Cached(rec, "user_agent", OptText(rec.user_agent))
parsed_status(rec) == Cached(rec, "status", OptInt(rec.status))
parsed_bytes(rec) == Cached(rec, "bytes", OptInt(rec.bytes))

\* The date slot is an Option<DateTime>: a failed decode leaves it None, and
\* the accessor unwraps it.
parsed_date(rec) ==
    IF IsSome(rec.parsed_record["date"])
    THEN Accessed(rec, Unwrap(rec.parsed_record["date"]))
    ELSE LET decoded == ParseDate(rec.date) IN
         IF IsSome(decoded)
         THEN Accessed([rec EXCEPT !.parsed_record["date"] = Some(decoded)], decoded)
         ELSE AccessPanic(rec)

(***************************************************************************)
(* The table definition (nginx.rs 292-344, table.rs).                      *)
(***************************************************************************)
ColumnType(c) ==
    IF c = "date" THEN "Date"
    ELSE IF c \in {"status", "bytes"} THEN "Integer"
    ELSE "Text"

get_size(c) ==
    CASE c = "ip" -> 15
      [] c = "date" -> 26
      [] c = "method" -> 5
      [] c = "path" -> 20
      [] c = "query" -> 50
      [] c = "status" -> 3
      [] c = "bytes" -> 10
      [] c = "referrer" -> 50
      [] c = "user_agent" -> 50

empty_opt(bytes) == IF Len(bytes) < 1 THEN None ELSE Some(bytes)

RawBytes(c, rec) ==
    CASE c = "ip" -> rec.ip
      [] c = "date" -> rec.date
      [] c = "method" -> rec.method
      [] c = "path" -> rec.path
      [] c = "query" -> rec.query
      [] c = "status" -> rec.status
      [] c = "bytes" -> rec.bytes
      [] c = "referrer" -> rec.referrer
      [] c = "user_agent" -> rec.user_agent

\* ColumnDefinition::extract_binary
extract_binary(c, rec) == empty_opt(RawBytes(c, rec))

\* The typed extractor of a column.
extractor(c, rec) ==
    CASE c = "ip" -> parsed_ip(rec)
      [] c = "date" -> parsed_date(rec)
      [] c = "method" -> parsed_method(rec)
      [] c = "path" -> parsed_path(rec)
      [] c = "query" -> parsed_query(rec)
      [] c = "status" -> parsed_status(rec)
      [] c = "bytes" -> parsed_bytes(rec)
      [] c = "referrer" -> parsed_referrer(rec)
      [] c = "user_agent" -> parsed_user_agent(rec)

\* tdef.column_map.get(symbol).unwrap() panics for a symbol that is no column.
HasColumn(symbol) == symbol \in ColumnSet

(***************************************************************************)
(* Record (query.rs 326-421): symbol lookups on the current record.        *)
(***************************************************************************)
get_symbol_bytes(rec, symbol) == extract_binary(symbol, rec)

get_symbol_string(rec, symbol) ==
    IF ColumnType(symbol) = "Text" THEN extractor(symbol, rec) ELSE Accessed(rec, None)

get_symbol_date(rec, symbol) ==
    IF ColumnType(symbol) = "Date" THEN extractor(symbol, rec) ELSE Accessed(rec, None)

get_column_value_as_string(rec, c) ==
    LET rendered(a) ==
            IF a.panic \/ IsNone(a.val) THEN a
            ELSE CASE ColumnType(c) = "Integer" -> Accessed(a.rec, Some(U64ToString(Unwrap(a.val))))
                   [] ColumnType(c) = "Date" -> Accessed(a.rec, Some(DateToString(Unwrap(a.val))))
                   [] OTHER -> a
    IN rendered(extractor(c, rec))

get_symbol_as_string(rec, symbol) ==
    IF ~HasColumn(symbol) THEN AccessPanic(rec) ELSE get_column_value_as_string(rec, symbol)

get_column_value_as_integer(rec, c) ==
    IF ColumnType(c) = "Integer" THEN extractor(c, rec) ELSE Accessed(rec, None)

get_symbol_as_integer(rec, symbol) ==
    IF ~HasColumn(symbol) THEN AccessPanic(rec) ELSE get_column_value_as_integer(rec, symbol)

(***************************************************************************)
(* The query AST (parser.rs 201-384).                                      *)
(***************************************************************************)
VSymbol(name) == [k |-> "Symbol", s |-> name, b |-> <<>>, d |-> 0]
VText(bytes) == [k |-> "Text", s |-> "", b |-> bytes, d |-> 0]
VInt(bytes) == [k |-> "Int", s |-> "", b |-> bytes, d |-> 0]
VDouble(bytes) == [k |-> "Double", s |-> "", b |-> bytes, d |-> 0]
VRegex(pattern) == [k |-> "Regex", s |-> "", b |-> pattern, d |-> 0]
VDate(t) == [k |-> "Date", s |-> "", b |-> <<>>, d |-> t]
VBoolean(v) == [k |-> "Boolean", s |-> "", b |-> <<>>, d |-> IF v THEN 1 ELSE 0]
VNull == [k |-> "Null", s |-> "", b |-> <<>>, d |-> 0]

BinaryOpFilter(lhs, rhs, op) == [t |-> "bin", lhs |-> lhs, rhs |-> rhs, op |-> op]
AndFilter(f1, f2) == [t |-> "and", f1 |-> f1, f2 |-> f2]
OrFilter(f1, f2) == [t |-> "or", f1 |-> f1, f2 |-> f2]

ShowAll == [k |-> "All", reducer |-> "", symbol |-> ""]
ShowSymbol(name) == [k |-> "Symbol", reducer |-> "", symbol |-> name]
ShowReducer(kind, name) == [k |-> "Reducer", reducer |-> kind, symbol |-> name]

is_reducer(e) == e.k = "Reducer"
is_star(e) == e.k = "All"
is_date(v) == v.k = "Date"

(***************************************************************************)
(* The filter evaluator (query.rs 192-283). Every step returns the result, *)
(* the record (its cache may have been filled) and whether it panicked.    *)
(***************************************************************************)
Evaluated(res, rec) == [res |-> res, rec |-> rec, panic |-> FALSE]
EvalPanic(rec) == [res |-> FALSE, rec |-> rec, panic |-> TRUE]

\* Regex::is_match for the patterns of the model: literal bytes, with an
\* optional leading ^ and an optional trailing $.
regex_is_match(pattern, str) ==
    LET atStart == Len(pattern) > 0 /\ Head(pattern) = "^"
        p1 == IF atStart THEN Tail(pattern) ELSE pattern
        atEnd == Len(p1) > 0 /\ p1[Len(p1)] = "$"
        lit == IF atEnd THEN SubSeq(p1, 1, Len(p1) - 1) ELSE p1
    IN IF Len(lit) > Len(str) THEN FALSE
       ELSE IF atStart /\ atEnd THEN str = lit
       ELSE IF atStart THEN SubSeq(str, 1, Len(lit)) = lit
       ELSE IF atEnd THEN SubSeq(str, Len(str) - Len(lit) + 1, Len(str)) = lit
       ELSE Contains(str, lit)

\* Record::resolve_byte_value. A symbol that is no column panics in
\* get_symbol_definition; validation rejects such a query beforehand.
resolve_byte_value(rec, value) ==
    CASE value.k \in {"Text", "Int", "Double"} -> Some(value.b)
      [] value.k = "Null" -> Some(<<>>)
      [] value.k = "Symbol" -> get_symbol_bytes(rec, value.s)
      [] OTHER -> None

evaluate_eq(operand1, operand2, rec) ==
    IF operand2.k = "Null"
    THEN Evaluated(IsNone(resolve_byte_value(rec, operand1)), rec)
    ELSE LET op1bytes == resolve_byte_value(rec, operand1)
             op2bytes == resolve_byte_value(rec, operand2)
         IN Evaluated(IsSome(op1bytes) /\ IsSome(op2bytes) /\ Unwrap(op1bytes) = Unwrap(op2bytes), rec)

\* evaluate_lt (want = -1) and evaluate_gt (want = 1).
evaluate_order(operand1, operand2, rec, want) ==
    IF is_date(operand2)
    THEN IF operand1.k = "Symbol"
         THEN LET a == get_symbol_date(rec, operand1.s) IN
              IF a.panic THEN EvalPanic(a.rec)
              ELSE Evaluated(IsSome(a.val) /\ (IF want < 0 THEN Unwrap(a.val) < operand2.d
                                                ELSE Unwrap(a.val) > operand2.d), a.rec)
         ELSE Evaluated(FALSE, rec)
    ELSE LET op1bytes == resolve_byte_value(rec, operand1)
             op2bytes == resolve_byte_value(rec, operand2)
         IN Evaluated(IsSome(op1bytes) /\ IsSome(op2bytes)
                      /\ CmpBytes(Unwrap(op1bytes), Unwrap(op2bytes)) = want, rec)

evaluate_lt(operand1, operand2, rec) == evaluate_order(operand1, operand2, rec, -1)
evaluate_gt(operand1, operand2, rec) == evaluate_order(operand1, operand2, rec, 1)

evaluate_re(operand1, operand2, rec) ==
    IF operand1.k = "Symbol" /\ operand2.k = "Regex"
    THEN LET a == get_symbol_string(rec, operand1.s) IN
         IF a.panic THEN EvalPanic(a.rec)
         ELSE Evaluated(IsSome(a.val) /\ regex_is_match(operand2.b, Unwrap(a.val)), a.rec)
    ELSE IF operand1.k = "Symbol" /\ operand2.k = "Text"
    THEN LET a == get_symbol_string(rec, operand1.s) IN
         IF a.panic THEN EvalPanic(a.rec)
         ELSE Evaluated(IsSome(a.val) /\ Contains(Unwrap(a.val), operand2.b), a.rec)
    ELSE Evaluated(FALSE, rec)

Negated(e) == [e EXCEPT !.res = ~e.res /\ ~e.panic]

evaluate_binary_filter(operand1, operand2, op, rec) ==
    CASE op = "Lt" -> evaluate_lt(operand1, operand2, rec)
      [] op = "Gt" -> evaluate_gt(operand1, operand2, rec)
      [] op = "Eq" -> evaluate_eq(operand1, operand2, rec)
      [] op = "Ne" -> Negated(evaluate_eq(operand1, operand2, rec))
      [] op = "Re" -> evaluate_re(operand1, operand2, rec)
      [] op = "Nr" -> Negated(evaluate_re(operand1, operand2, rec))

RECURSIVE evaluate_filter(_, _)
evaluate_filter(filter, rec) ==
    IF filter.t = "bin"
    THEN evaluate_binary_filter(filter.lhs, filter.rhs, filter.op, rec)
    ELSE LET e1 == evaluate_filter(filter.f1, rec) IN
         IF e1.panic THEN e1
         ELSE IF filter.t = "and"
         THEN IF e1.res THEN evaluate_filter(filter.f2, e1.rec) ELSE e1
         ELSE IF e1.res THEN e1 ELSE evaluate_filter(filter.f2, e1.rec)

\* Every record passes, whatever the filter.
apply_filters_all_pass(q, rec) == Evaluated(TRUE, rec)

apply_filters(q, rec) ==
    IF IsSome(q.filter) THEN evaluate_filter(Unwrap(q.filter), rec) ELSE Evaluated(TRUE, rec)

(***************************************************************************)
(* Query validation (query.rs 12-94). A result is Ok or the error naming   *)
(* the symbol that is no column.                                           *)
(***************************************************************************)
Ok == [ok |-> TRUE, symbol |-> ""]
Err(symbol) == [ok |-> FALSE, symbol |-> symbol]

\* The other way round: the last error of the two.
ResultAndLast(r1, r2) == IF r2.ok THEN r1 ELSE r2

\* Result::and: the first error of the two.
ResultAnd(r1, r2) == IF r1.ok THEN r2 ELSE r1

validate_symbol(symbol) == IF symbol \in ColumnSet THEN Ok ELSE Err(symbol)

validate_filter_operand(operand) ==
    IF operand.k = "Symbol" THEN validate_symbol(operand.s) ELSE Ok

RECURSIVE validate_riplog_filter(_)
validate_riplog_filter(filter) ==
    IF filter.t = "bin"
    THEN ResultAnd(validate_filter_operand(filter.lhs), validate_filter_operand(filter.rhs))
    ELSE ResultAnd(validate_riplog_filter(filter.f1), validate_riplog_filter(filter.f2))

RECURSIVE validate_riplog_grouping(_)
validate_riplog_grouping(groupings) ==
    IF Len(groupings) = 0 THEN Ok
    ELSE LET r == validate_symbol(Head(groupings)) IN
         IF r.ok THEN validate_riplog_grouping(Tail(groupings)) ELSE r

validate_show_element(element) ==
    CASE element.k = "Symbol" -> validate_symbol(element.symbol)
      [] element.k = "Reducer" -> IF element.symbol # "*" THEN validate_symbol(element.symbol) ELSE Ok
      [] OTHER -> Ok

RECURSIVE validate_riplog_show(_)
validate_riplog_show(elements) ==
    IF Len(elements) = 0 THEN Ok
    ELSE LET r == validate_show_element(Head(elements)) IN
         IF r.ok THEN validate_riplog_show(Tail(elements)) ELSE r

validate_riplog_query(q) ==
    LET rf == IF IsSome(q.filter) THEN validate_riplog_filter(Unwrap(q.filter)) ELSE Ok IN
    IF ~rf.ok THEN rf ELSE
    LET rg == IF IsSome(q.grouping) THEN validate_riplog_grouping(Unwrap(q.grouping)) ELSE Ok IN
    IF ~rg.ok THEN rg ELSE
    IF IsSome(q.show) THEN validate_riplog_show(Unwrap(q.show)) ELSE Ok

(***************************************************************************)
(* The show plan (parser.rs 211-255).                                      *)
(***************************************************************************)
SymbolsOf(names) == [i \in 1..Len(names) |-> ShowSymbol(names[i])]

\* A plan that gives a grouped query without reducers no count(*).
compute_show_no_count(q) ==
    IF IsSome(q.grouping)
    THEN SymbolsOf(Unwrap(q.grouping))
         \o (IF IsSome(q.show) THEN SelectSeq(Unwrap(q.show), is_reducer) ELSE <<>>)
    ELSE IF IsSome(q.show) THEN Unwrap(q.show) ELSE SymbolsOf(Columns)

\* A plan that leaves an ungrouped show clause with "*" as written.
compute_show_star_kept(q) ==
    IF IsSome(q.grouping)
    THEN SymbolsOf(Unwrap(q.grouping)) \o <<ShowReducer("count", "*")>>
    ELSE IF IsSome(q.show)
    THEN (IF \E i \in 1..Len(Unwrap(q.show)) : is_reducer(Unwrap(q.show)[i])
          THEN SelectSeq(Unwrap(q.show), is_reducer) ELSE Unwrap(q.show))
    ELSE SymbolsOf(Columns)

\* A plan that puts count(*) after the grouping whether or not the show
\* clause has reducers.
compute_show_always_count(q) ==
    IF IsSome(q.grouping)
    THEN SymbolsOf(Unwrap(q.grouping)) \o <<ShowReducer("count", "*")>>
         \o (IF IsSome(q.show) THEN SelectSeq(Unwrap(q.show), is_reducer) ELSE <<>>)
    ELSE IF IsSome(q.show)
    THEN (IF \E i \in 1..Len(Unwrap(q.show)) : is_reducer(Unwrap(q.show)[i])
          THEN SelectSeq(Unwrap(q.show), is_reducer)
          ELSE IF \E i \in 1..Len(Unwrap(q.show)) : is_star(Unwrap(q.show)[i])
          THEN SymbolsOf(Columns) ELSE Unwrap(q.show))
    ELSE SymbolsOf(Columns)

\* RipLogQuery::compute_show
compute_show(q) ==
    IF IsSome(q.show) THEN
        LET user == Unwrap(q.show)
            filtered_shows == SelectSeq(user, is_reducer)
        IN
        IF IsSome(q.grouping) THEN
            SymbolsOf(Unwrap(q.grouping))
            \o (IF Len(filtered_shows) = 0 THEN <<ShowReducer("count", "*")>> ELSE <<>>)
            \o filtered_shows
        ELSE IF \E i \in 1..Len(user) : is_reducer(user[i]) THEN filtered_shows
        ELSE IF \E i \in 1..Len(user) : is_star(user[i]) THEN SymbolsOf(Columns)
        ELSE user
    ELSE
        IF IsSome(q.grouping)
        THEN SymbolsOf(Unwrap(q.grouping)) \o <<ShowReducer("count", "*")>>
        ELSE SymbolsOf(Columns)

is_aggregate_query(q) ==
    IsSome(q.grouping)
    \/ (IsSome(q.computed_show)
        /\ \E i \in 1..Len(Unwrap(q.computed_show)) : is_reducer(Unwrap(q.computed_show)[i]))

(***************************************************************************)
(* Reducers (query.rs 291-311, 423-541).                                   *)
(***************************************************************************)
FieldReducer(kind, symbol) == [kind |-> kind, symbol |-> symbol, count |-> 0, sum |-> 0, max |-> 0]

create_reducer(q) ==
    IF IsSome(q.computed_show)
    THEN LET rs == SelectSeq(Unwrap(q.computed_show), is_reducer)
         IN [i \in 1..Len(rs) |-> FieldReducer(rs[i].reducer, rs[i].symbol)]
    ELSE <<>>

Applied(fr, rec) == [fr |-> fr, rec |-> rec, panic |-> FALSE]

\* A max reducer that keeps the last present value, not the largest.
field_apply_record_last_max(fr, rec) ==
    IF fr.kind = "count" THEN
        IF fr.symbol = "*" THEN Applied([fr EXCEPT !.count = @ + 1], rec)
        ELSE IF ~HasColumn(fr.symbol) THEN [fr |-> fr, rec |-> rec, panic |-> TRUE]
        ELSE IF IsSome(get_symbol_bytes(rec, fr.symbol))
             THEN Applied([fr EXCEPT !.count = @ + 1], rec)
             ELSE Applied(fr, rec)
    ELSE
        LET folded(a) ==
                IF a.panic THEN [fr |-> fr, rec |-> a.rec, panic |-> TRUE]
                ELSE IF IsNone(a.val) THEN Applied(fr, a.rec)
                ELSE CASE fr.kind = "sum" -> Applied([fr EXCEPT !.sum = @ + Unwrap(a.val)], a.rec)
                       [] fr.kind = "avg" -> Applied([fr EXCEPT !.sum = @ + Unwrap(a.val), !.count = @ + 1], a.rec)
                       [] fr.kind = "max" -> Applied([fr EXCEPT !.max = Unwrap(a.val)], a.rec)
        IN folded(get_symbol_as_integer(rec, fr.symbol))

\* FieldReducer::apply_record of the four reducers. The additions are u64
\* additions; the values of the model stay far below 2^64, so none overflows.
field_apply_record(fr, rec) ==
    IF fr.kind = "count" THEN
        IF fr.symbol = "*" THEN Applied([fr EXCEPT !.count = @ + 1], rec)
        ELSE IF ~HasColumn(fr.symbol) THEN [fr |-> fr, rec |-> rec, panic |-> TRUE]
        ELSE IF IsSome(get_symbol_bytes(rec, fr.symbol))
             THEN Applied([fr EXCEPT !.count = @ + 1], rec)
             ELSE Applied(fr, rec)
    ELSE
        LET folded(a) ==
                IF a.panic THEN [fr |-> fr, rec |-> a.rec, panic |-> TRUE]
                ELSE IF IsNone(a.val) THEN Applied(fr, a.rec)
                ELSE CASE fr.kind = "sum" -> Applied([fr EXCEPT !.sum = @ + Unwrap(a.val)], a.rec)
                       [] fr.kind = "avg" -> Applied([fr EXCEPT !.sum = @ + Unwrap(a.val), !.count = @ + 1], a.rec)
                       [] fr.kind = "max" -> Applied(IF Unwrap(a.val) > fr.max
                                                     THEN [fr EXCEPT !.max = Unwrap(a.val)] ELSE fr, a.rec)
        IN folded(get_symbol_as_integer(rec, fr.symbol))

\* FieldReducer::result
field_result(fr) ==
    CASE fr.kind = "count" -> fr.count
      [] fr.kind = "sum" -> fr.sum
      [] fr.kind = "max" -> fr.max
      [] fr.kind = "avg" -> IF fr.count > 0 THEN fr.sum \div fr.count ELSE 0

\* Reducer::apply_record: every field reducer in order.
RECURSIVE reducer_apply_from(_, _, _)
reducer_apply_from(reducer, i, rec) ==
    IF i > Len(reducer) THEN [reducer |-> reducer, rec |-> rec, panic |-> FALSE]
    ELSE LET next(a) ==
                 IF a.panic THEN [reducer |-> reducer, rec |-> a.rec, panic |-> TRUE]
                 ELSE reducer_apply_from([reducer EXCEPT ![i] = a.fr], i + 1, a.rec)
         IN next(field_apply_record(reducer[i], rec))

reducer_apply_record(reducer, rec) == reducer_apply_from(reducer, 1, rec)

NullText == <<"n", "u", "l", "l">>

\* A group key that leaves a missing grouping column out.
RECURSIVE create_group_key_missing_dropped(_, _, _, _)
create_group_key_missing_dropped(groupings, i, rec, key) ==
    IF i > Len(groupings) THEN [key |-> key, rec |-> rec, panic |-> FALSE]
    ELSE LET pushed(a) ==
                 IF a.panic THEN [key |-> key, rec |-> a.rec, panic |-> TRUE]
                 ELSE create_group_key_missing_dropped(groupings, i + 1, a.rec,
                                            IF IsSome(a.val) THEN Append(key, Unwrap(a.val)) ELSE key)
         IN pushed(get_symbol_as_string(rec, groupings[i]))

\* create_group_key: the rendered grouping columns, "null" for a missing one.
RECURSIVE create_group_key_from(_, _, _, _)
create_group_key_from(groupings, i, rec, key) ==
    IF i > Len(groupings) THEN [key |-> key, rec |-> rec, panic |-> FALSE]
    ELSE LET pushed(a) ==
                 IF a.panic THEN [key |-> key, rec |-> a.rec, panic |-> TRUE]
                 ELSE create_group_key_from(groupings, i + 1, a.rec,
                                            Append(key, IF IsSome(a.val) THEN Unwrap(a.val) ELSE NullText))
         IN pushed(get_symbol_as_string(rec, groupings[i]))

create_group_key(groupings, rec) == create_group_key_from(groupings, 1, rec, <<>>)

(***************************************************************************)
(* The record formatter (query.rs 561-907).                                *)
(***************************************************************************)
WidthCap == 50
ReducerSize == 10
DefaultSize == 10

\* get_group_idx: the 0-based position of symbol in the grouping, or -1 (None).
get_group_idx(symbol, q) ==
    IF IsSome(q.grouping) THEN index_of(Unwrap(q.grouping), symbol) ELSE -1

\* get_reduce_idx: the 0-based position, among the reducers of the computed
\* show, of the first one of this kind whose symbol matches; -1 (None).
get_reduce_idx(symbol, reducer, q) ==
    IF IsSome(q.computed_show) THEN
        LET rs == SelectSeq(Unwrap(q.computed_show), is_reducer)
            hit(i) == rs[i].reducer = reducer /\ (symbol = "*" \/ rs[i].symbol = symbol)
        IN IF \E i \in 1..Len(rs) : hit(i)
           THEN (CHOOSE i \in 1..Len(rs) : hit(i) /\ \A j \in 1..(i - 1) : ~hit(j)) - 1
           ELSE -1
    ELSE -1

OutputField(kind, symbol, reducer, idx, size) ==
    [kind |-> kind, symbol |-> symbol, reducer |-> reducer, idx |-> idx, size |-> size]

\* OutputField::name
field_name(f) ==
    IF f.kind = "Reduced" THEN f.reducer \o "(" \o f.symbol \o ")" ELSE f.symbol

\* The output field RecordFormatter::new makes of one element of the
\* computed show (none for an element that is neither symbol nor reducer).
field_of_element(element, q) ==
    CASE element.k = "Symbol" ->
            LET group_idx == get_group_idx(element.symbol, q)
                size == IF HasColumn(element.symbol) THEN get_size(element.symbol) ELSE DefaultSize
            IN IF group_idx >= 0
               THEN <<OutputField("Group", element.symbol, "", group_idx, size)>>
               ELSE <<OutputField("Symbol", element.symbol, "", 0, size)>>
      [] element.k = "Reducer" ->
            LET reduce_idx == get_reduce_idx(element.symbol, element.reducer, q) IN
            IF reduce_idx >= 0
            THEN <<OutputField("Reduced", element.symbol, element.reducer, reduce_idx, ReducerSize)>>
            ELSE <<>>
      [] OTHER -> <<>>

RECURSIVE fields_of(_, _)
fields_of(elements, q) ==
    IF Len(elements) = 0 THEN <<>>
    ELSE field_of_element(Head(elements), q) \o fields_of(Tail(elements), q)

\* The sort field: the last group or reducer field whose name is the one the
\* first sorting names.
sort_of(fs, q) ==
    IF IsSome(q.sort) THEN
        LET sortable(i) == fs[i].kind # "Symbol" /\ field_name(fs[i]) = Unwrap(q.sort).field IN
        IF \E i \in 1..Len(fs) : sortable(i)
        THEN LET i == CHOOSE i \in 1..Len(fs) : sortable(i) /\ \A j \in (i + 1)..Len(fs) : ~sortable(j)
             IN Some([field |-> fs[i], order |-> Unwrap(q.sort).order])
        ELSE None
    ELSE None

\* RecordFormatter::new
formatter_new(q) ==
    LET fs == fields_of(Unwrap(q.computed_show), q) IN [fields |-> fs, sort |-> sort_of(fs, q)]

\* OutputField::header: the size grows to the label's length.
header_size(f) == Max(f.size, Len(field_name(f)))

\* A header without the rule below it.
format_header_row_no_rule(fs) ==
    LET sized == [i \in 1..Len(fs) |-> [fs[i] EXCEPT !.size = header_size(fs[i])]]
        RECURSIVE total(_)
        total(i) == IF i = 0 THEN 1 ELSE total(i - 1) + sized[i].size + 3
        labels == [i \in 1..Len(fs) |-> field_name(fs[i])]
        widths == [i \in 1..Len(fs) |-> [s |-> <<>>, w |-> sized[i].size]]
        pad == total(Len(fs)) - 2
    IN [fields |-> sized,
        panic |-> pad < 0,
        lines |-> << [t |-> "top", labels |-> <<>>, cells |-> <<>>, len |-> pad],
                     [t |-> "header", labels |-> labels, cells |-> widths, len |-> pad] >>]

\* format_header_row: the three lines printed and the fields' new sizes.
\* header_row.len() - 2 underflows when there is no field.
format_header_row(fs) ==
    LET sized == [i \in 1..Len(fs) |-> [fs[i] EXCEPT !.size = header_size(fs[i])]]
        RECURSIVE total(_)
        total(i) == IF i = 0 THEN 1 ELSE total(i - 1) + sized[i].size + 3
        labels == [i \in 1..Len(fs) |-> field_name(fs[i])]
        widths == [i \in 1..Len(fs) |-> [s |-> <<>>, w |-> sized[i].size]]
        pad == total(Len(fs)) - 2
    IN [fields |-> sized,
        panic |-> pad < 0,
        lines |-> << [t |-> "top", labels |-> <<>>, cells |-> <<>>, len |-> pad],
                     [t |-> "header", labels |-> labels, cells |-> widths, len |-> pad],
                     [t |-> "mid", labels |-> <<>>, cells |-> <<>>, len |-> pad] >>]

\* format_closing_row
format_closing_row(fs) ==
    LET RECURSIVE total(_)
        total(i) == IF i = 0 THEN 1 ELSE total(i - 1) + fs[i].size + 3
        pad == total(Len(fs)) - 2
    IN [panic |-> pad < 0,
        line |-> [t |-> "close", labels |-> <<>>, cells |-> <<>>, len |-> pad]]

\* OutputField::format_field of the three kinds of field: the text of the
\* cell. recOpt, keyOpt and reducerOpt are the Option arguments.
field_output(f, recOpt, keyOpt, reducerOpt) ==
    CASE f.kind = "Symbol" ->
            IF IsSome(recOpt)
            THEN LET shown(a) == [text |-> IF IsSome(a.val) THEN Unwrap(a.val) ELSE NullText,
                                  rec |-> Some(a.rec), panic |-> a.panic]
                 IN shown(get_symbol_as_string(Unwrap(recOpt), f.symbol))
            ELSE [text |-> NullText, rec |-> recOpt, panic |-> FALSE]
      [] f.kind = "Group" ->
            [text |-> IF IsSome(keyOpt) /\ Len(Unwrap(keyOpt)) >= f.idx + 1
                      THEN Unwrap(keyOpt)[f.idx + 1] ELSE NullText,
             rec |-> recOpt, panic |-> FALSE]
      [] f.kind = "Reduced" ->
            [text |-> IF IsSome(reducerOpt) /\ Len(Unwrap(reducerOpt)) >= f.idx + 1
                      THEN U64ToString(field_result(Unwrap(reducerOpt)[f.idx + 1])) ELSE NullText,
             rec |-> recOpt, panic |-> FALSE]

\* if self.size < output.len() && self.size < 50 { self.size = output.len() }
grown_size(size, outlen) == IF size < outlen /\ size < WidthCap THEN outlen ELSE size

\* One printed row: every field formatted in order.
RECURSIVE format_row_from(_, _, _, _, _, _)
format_row_from(fs, i, recOpt, keyOpt, reducerOpt, cells) ==
    IF i > Len(fs)
    THEN [fields |-> fs, rec |-> recOpt, panic |-> FALSE,
          line |-> [t |-> "row", labels |-> <<>>, cells |-> cells, len |-> 0]]
    ELSE LET \* format!(" {:width$} ", output): padded, never cut
             placed(o, size) ==
                 format_row_from([fs EXCEPT ![i].size = size], i + 1, o.rec, keyOpt, reducerOpt,
                                 Append(cells, [s |-> o.text, w |-> Max(size, Len(o.text))]))
             formatted(o) ==
                 IF o.panic
                 THEN [fields |-> fs, rec |-> o.rec, panic |-> TRUE,
                       line |-> [t |-> "row", labels |-> <<>>, cells |-> cells, len |-> 0]]
                 ELSE placed(o, grown_size(fs[i].size, Len(o.text)))
         IN formatted(field_output(fs[i], recOpt, keyOpt, reducerOpt))

format_record(fs, rec) == format_row_from(fs, 1, Some(rec), None, None, <<>>)
format_grouped_record(fs, key, reducer) == format_row_from(fs, 1, None, Some(key), Some(reducer), <<>>)
format_reduced_record(fs, reducer) == format_row_from(fs, 1, None, None, Some(reducer), <<>>)

\* OutputField::compare of the sort field on two groups: -1, 0 or 1.
field_compare(f, key1, reducer1, key2, reducer2, desc) ==
    LET has1 == IF f.kind = "Group" THEN Len(key1) >= f.idx + 1 ELSE Len(reducer1) >= f.idx + 1
        has2 == IF f.kind = "Group" THEN Len(key2) >= f.idx + 1 ELSE Len(reducer2) >= f.idx + 1
        order == IF f.kind = "Group" THEN CmpBytes(key1[f.idx + 1], key2[f.idx + 1])
                 ELSE LET v1 == field_result(reducer1[f.idx + 1])
                          v2 == field_result(reducer2[f.idx + 1])
                      IN IF v1 < v2 THEN -1 ELSE IF v1 > v2 THEN 1 ELSE 0
    IN IF f.kind = "Symbol" THEN 0
       ELSE IF has1 /\ has2 THEN (IF desc THEN -order ELSE order)
       ELSE IF has1 THEN (IF desc THEN -1 ELSE 1)
       ELSE IF has2 THEN (IF desc THEN 1 ELSE -1)
       ELSE 0

\* RecordFormatter::sort_grouped
sort_grouped(srt, key1, reducer1, key2, reducer2) ==
    IF IsSome(srt)
    THEN field_compare(Unwrap(srt).field, key1, reducer1, key2, reducer2, Unwrap(srt).order = "DESC")
    ELSE 0

(***************************************************************************)
(* The evaluator and the driver (query.rs 96-190, main.rs 31-79).          *)
(***************************************************************************)
RipLogQuery(filter, grouping, show, srt, limit) ==
    [filter |-> filter, grouping |-> grouping, show |-> show, sort |-> srt,
     limit |-> limit, computed_show |-> None]

\* QueryEvaluator::should_stop
should_stop ==
    IsSome(query.limit) /\ printed_count >= Unwrap(query.limit)

Panicked(reason) == pc' = "panicked" /\ panic' = reason

\* run_query: validate_riplog_query(...) and result.unwrap()
Validate ==
    /\ pc = "validate"
    /\ validation' = Some(validate_riplog_query(query))
    /\ IF validate_riplog_query(query).ok
       THEN pc' = "new" /\ panic' = panic
       ELSE Panicked("validation")
    /\ UNCHANGED <<query, stream, pos, record, aggregate, printed_count, group_map,
                   global_reducer, fields, sort, out, passed, returned>>

\* QueryEvaluator::new
New ==
    /\ pc = "new"
    /\ LET headed(fs, h) ==
               IF h.panic
               THEN fields' = fs /\ out' = out /\ Panicked("format")
               ELSE fields' = h.fields /\ out' = out \o h.lines /\ pc' = "read" /\ panic' = panic
           built(rquery, formatter, agg) ==
               /\ query' = rquery
               /\ sort' = formatter.sort
               /\ global_reducer' = create_reducer(rquery)
               /\ group_map' = <<>>
               /\ aggregate' = agg
               /\ printed_count' = 0
               /\ IF agg
                  THEN fields' = formatter.fields /\ out' = out /\ pc' = "read" /\ panic' = panic
                  ELSE headed(formatter.fields, format_header_row(formatter.fields))
           planned(rquery) == built(rquery, formatter_new(rquery), is_aggregate_query(rquery))
       IN planned([query EXCEPT !.computed_show = Some(compute_show(query))])
    /\ UNCHANGED <<stream, pos, record, validation, passed, returned>>

\* evaluate_query_log_dir: the reader yields one more line, which is tokenized
\* into the reusable record.
ReadLine ==
    /\ pc = "read"
    /\ pos < Len(stream)
    /\ pos' = pos + 1
    /\ LET tokenized(t) ==
               IF t.ok
               THEN record' = t.rec /\ pc' = "evaluate" /\ panic' = panic
               ELSE record' = record /\ Panicked("tokenize")
       IN tokenized(read_log_record_binary(stream[pos + 1]))
    /\ UNCHANGED <<query, stream, validation, aggregate, printed_count, group_map,
                   global_reducer, fields, sort, out, passed, returned>>

\* An aggregate that folds every record into a fresh reducer, also when the
\* group map holds an entry for its key.
aggregate_record_fresh_entry(rec) ==
    IF IsSome(query.grouping) THEN
        LET entered(k, a) ==
                [group_map |-> [key \in (DOMAIN group_map) \cup {k.key} |->
                                  IF key = k.key THEN a.reducer ELSE group_map[key]],
                 global_reducer |-> global_reducer, rec |-> a.rec, panic |-> a.panic]
            keyed(k) ==
                IF k.panic THEN [group_map |-> group_map, global_reducer |-> global_reducer,
                                 rec |-> k.rec, panic |-> TRUE]
                ELSE entered(k, reducer_apply_record(create_reducer(query), k.rec))
        IN keyed(create_group_key(Unwrap(query.grouping), rec))
    ELSE LET reduced(a) ==
                 [group_map |-> group_map, global_reducer |-> a.reducer,
                  rec |-> a.rec, panic |-> a.panic]
         IN reduced(reducer_apply_record(global_reducer, rec))

\* QueryEvaluator::aggregate: the group map and the global reducer after the
\* record is folded in.
aggregate_record(rec) ==
    IF IsSome(query.grouping) THEN
        LET entered(k, a) ==
                [group_map |-> [key \in (DOMAIN group_map) \cup {k.key} |->
                                  IF key = k.key THEN a.reducer ELSE group_map[key]],
                 global_reducer |-> global_reducer, rec |-> a.rec, panic |-> a.panic]
            keyed(k) ==
                IF k.panic THEN [group_map |-> group_map, global_reducer |-> global_reducer,
                                 rec |-> k.rec, panic |-> TRUE]
                ELSE entered(k, reducer_apply_record(IF k.key \in DOMAIN group_map
                                                     THEN group_map[k.key]
                                                     ELSE create_reducer(query), k.rec))
        IN keyed(create_group_key(Unwrap(query.grouping), rec))
    ELSE LET reduced(a) ==
                 [group_map |-> group_map, global_reducer |-> a.reducer,
                  rec |-> a.rec, panic |-> a.panic]
         IN reduced(reducer_apply_record(global_reducer, rec))

\* QueryEvaluator::evaluate on the record just tokenized.
Evaluate ==
    /\ pc = "evaluate"
    /\ LET aggregated(a) ==
               /\ record' = a.rec
               /\ passed' = passed + 1
               /\ IF a.panic
                  THEN Panicked("aggregate") /\ UNCHANGED <<group_map, global_reducer>>
                  ELSE /\ pc' = "read" /\ panic' = panic
                       /\ group_map' = a.group_map
                       /\ global_reducer' = a.global_reducer
               /\ UNCHANGED <<printed_count, fields, out>>
           printed(r) ==
               /\ record' = Unwrap(r.rec)
               /\ passed' = passed + 1
               /\ fields' = r.fields
               /\ IF r.panic
                  THEN Panicked("format") /\ UNCHANGED <<printed_count, out>>
                  ELSE /\ pc' = "read" /\ panic' = panic
                       /\ out' = Append(out, r.line)
                       /\ printed_count' = printed_count + 1
               /\ UNCHANGED <<group_map, global_reducer>>
           filtered(e) ==
               IF e.panic
               THEN /\ record' = e.rec /\ Panicked("filter")
                    /\ UNCHANGED <<printed_count, group_map, global_reducer, fields, out, passed>>
               ELSE IF ~e.res
               THEN /\ record' = e.rec /\ pc' = "read" /\ panic' = panic
                    /\ UNCHANGED <<printed_count, group_map, global_reducer, fields, out, passed>>
               ELSE IF aggregate
               THEN aggregated(aggregate_record(e.rec))
               ELSE printed(format_record(fields, e.rec))
       IN filtered(apply_filters(query, record))
    /\ UNCHANGED <<query, stream, pos, validation, aggregate, sort, returned>>

\* The orders in which finalize can emit the groups: any order of the hash
\* map's entries, or, with a sort field, any order sort_unstable_by can leave.
GroupOrders ==
    LET keys == DOMAIN group_map
        n == Cardinality(keys)
    IN {p \in [1..n -> keys] :
          /\ \A i, j \in 1..n : i # j => p[i] # p[j]
          /\ IsSome(sort) =>
               \A i, j \in 1..n : i < j =>
                  sort_grouped(sort, p[i], group_map[p[i]], p[j], group_map[p[j]]) <= 0}

\* The rows of the first n groups of order p, and the fields' sizes after them.
RECURSIVE format_groups_from(_, _, _, _, _)
format_groups_from(fs, p, i, n, lines) ==
    IF i > n THEN [fields |-> fs, lines |-> lines]
    ELSE LET rowed(r) == format_groups_from(r.fields, p, i + 1, n, Append(lines, r.line))
         IN rowed(format_grouped_record(fs, p[i], group_map[p[i]]))

\* End of the stream (read_until returns 0) and QueryEvaluator::finalize.
Finalize ==
    /\ pc = "read"
    /\ pos = Len(stream)
    /\ \E p \in GroupOrders :
         LET n == IF IsSome(query.limit) THEN Min(Unwrap(query.limit), Len(p)) ELSE Len(p)
             grouped(h, g) == [fields |-> g.fields, lines |-> h.lines \o g.lines]
             reduced(h, r) == [fields |-> r.fields, lines |-> Append(h.lines, r.line)]
             body(h) == IF ~aggregate THEN [fields |-> fields, lines |-> <<>>]
                        ELSE IF IsSome(query.grouping)
                        THEN grouped(h, format_groups_from(h.fields, p, 1, n, <<>>))
                        ELSE reduced(h, format_reduced_record(h.fields, global_reducer))
             closed(hpanic, b, c) ==
                 IF (aggregate /\ hpanic) \/ c.panic
                 THEN Panicked("format") /\ UNCHANGED <<fields, out>>
                 ELSE /\ fields' = b.fields
                      /\ out' = out \o b.lines \o <<c.line>>
                      /\ pc' = "done"
                      /\ panic' = panic
             footed(hpanic, b) == closed(hpanic, b, format_closing_row(b.fields))
             emitted(h) == footed(h.panic, body(h))
         IN emitted(format_header_row(fields))
    /\ UNCHANGED <<query, stream, pos, record, validation, aggregate, printed_count,
                   group_map, global_reducer, sort, passed, returned>>

Next == Validate \/ New \/ ReadLine \/ Evaluate \/ Finalize

(***************************************************************************)
(* Inputs: log lines.                                                      *)
(***************************************************************************)
\* One line of the combined log format, from its fields.
LogLine(ip, date, request, status, bytes, referrer, user_agent, eol) ==
    ip \o <<" ", "-", " ", "-", " ", "[">> \o date \o <<"]", " ", "\"">> \o request
    \o <<"\"", " ">> \o status \o <<" ">> \o bytes \o <<" ", "\"">> \o referrer
    \o <<"\"", " ", "\"">> \o user_agent \o <<"\"">> \o eol

DateA == <<"1", "0", "/", "O", "c", "t", "/", "2", "0", "2", "0", ":", "1", "3", ":", "5", "5", ":", "3", "6", " ", "+", "0", "0", "0", "0">>
DateB == <<"1", "1", "/", "O", "c", "t", "/", "2", "0", "2", "0", ":", "0", "1", ":", "0", "2", ":", "0", "3", " ", "+", "0", "1", "0", "0">>
DateBad == <<"1", "0", "/", "O", "k", "t", "/", "2", "0", "2", "0">>
ReqU == <<"G", "E", "T", " ", "/", "u", " ", "H">>
ReqA == <<"G", "E", "T", " ", "/", "a", "?", "x", "=", "1", " ", "H">>
ReqNone == <<"-">>
S200 == <<"2", "0", "0">>
S404 == <<"4", "0", "4">>
SBad == <<"2", "x">>
B42 == <<"4", "2">>
B7 == <<"0", "0", "7">>
BDash == <<"-">>
Dash == <<"-">>
RefR == <<"r", "e", "f">>
UA == <<"U", "A">>
EOL == <<"\n">>
Garbage == <<"g", "a", "r", "b", "a", "g", "e", "\n">>

\* A line as in the specification's first scenario: referrer "-".
LineU == LogLine(<<"A">>, DateA, ReqU, S200, B42, Dash, UA, EOL)
\* A request with a query string, a referrer, another ip and status.
LineA == LogLine(<<"B">>, DateB, ReqA, S404, B7, RefR, UA, EOL)
\* A request line without a space: no method; bytes "-" and status "2x" do
\* not decode.
LineNoMethod == LogLine(<<"A">>, DateA, ReqNone, SBad, BDash, Dash, UA, EOL)
\* A date that does not decode.
LineBadDate == LogLine(<<"B">>, DateBad, ReqU, S200, B42, RefR, UA, EOL)

(***************************************************************************)
(* Inputs: queries, and the specifications.                                *)
(***************************************************************************)
SeqsUpTo(S, n) == UNION {[1..k -> S] : k \in 0..n}
NonEmptySeqsUpTo(S, n) == UNION {[1..k -> S] : k \in 1..n}
Options(S) == {None} \cup {Some(x) : x \in S}

\* 10/Oct/2020 20:00:00 UTC, between DateA and DateB.
DateLiteral == Unwrap(ParseDate(<<"1","0","/","O","c","t","/","2","0","2","0",":","2","0",":","0","0",":","0","0"," ","+","0","0","0","0">>))

InitEvaluator ==
    /\ pos = 0
    /\ record = EmptyRecord
    /\ validation = None
    /\ aggregate = FALSE
    /\ printed_count = 0
    /\ group_map = <<>>
    /\ global_reducer = <<>>
    /\ fields = <<>>
    /\ sort = None
    /\ out = <<>>
    /\ passed = 0
    /\ pc = "validate"
    /\ panic = ""
    /\ returned = None

\* The run of a query over a stream of lines.
RunLines == {LineU, LineA, LineNoMethod, LineBadDate, Garbage}

RunFilters ==
    { BinaryOpFilter(VSymbol("referrer"), VNull, "Eq"),
      BinaryOpFilter(VSymbol("status"), VText(S200), "Ne"),
      BinaryOpFilter(VSymbol("date"), VDate(DateLiteral), "Lt") }

RunShows ==
    { <<ShowSymbol("ip"), ShowSymbol("referrer")>>,
      <<ShowReducer("sum", "*")>>,
      <<ShowReducer("count", "*"), ShowReducer("sum", "bytes")>> }

RunQueries ==
    { RipLogQuery(f, g, s, None, l) :
        f \in Options(RunFilters), g \in Options({<<"ip">>}),
        s \in Options(RunShows), l \in Options({0, 1}) }

Init ==
    /\ query \in RunQueries
    /\ stream \in SeqsUpTo(RunLines, MaxLines)
    /\ InitEvaluator

Spec == Init /\ [][Next]_vars

\* Validation and the show plan of a query, over an empty directory.
PlanFilters ==
    { BinaryOpFilter(VSymbol("ip"), VText(<<"A">>), "Eq"),
      BinaryOpFilter(VSymbol("foo"), VSymbol("bar"), "Eq"),
      AndFilter(BinaryOpFilter(VSymbol("ip"), VSymbol("foo"), "Ne"),
                BinaryOpFilter(VSymbol("bar"), VSymbol("path"), "Lt")),
      OrFilter(BinaryOpFilter(VText(<<"A">>), VSymbol("ip"), "Eq"),
               BinaryOpFilter(VSymbol("status"), VSymbol("bar"), "Gt")) }

PlanShowElements ==
    { ShowAll, ShowSymbol("path"), ShowSymbol("ip"), ShowSymbol("nope"),
      ShowReducer("count", "*"), ShowReducer("sum", "bytes"), ShowReducer("max", "zap") }

PlanQueries ==
    { RipLogQuery(f, g, s, None, None) :
        f \in Options(PlanFilters),
        g \in Options(NonEmptySeqsUpTo({"ip", "status", "baz"}, MaxGroupLen)),
        s \in Options(NonEmptySeqsUpTo(PlanShowElements, MaxShowLen)) }

InitPlan ==
    /\ query \in PlanQueries
    /\ stream = <<>>
    /\ InitEvaluator

NextPlan == Validate \/ New \/ Finalize

SpecPlan == InitPlan /\ [][NextPlan]_vars

(***************************************************************************)
(* The row limit (query.rs 129-144, main.rs 61-75).                        *)
(***************************************************************************)
\* The record rows printed so far.
Rows == Cardinality({i \in 1..Len(out) : out[i].t = "row"})

\* C1: a non-aggregate query with limit N has emitted, when its run is over,
\* exactly min(N, number of records that pass the filter) rows.
C1_LimitEmitsMinRows ==
    (pc = "done" /\ ~aggregate /\ IsSome(query.limit))
        => Rows = Min(Unwrap(query.limit), passed)

\* C2: should_stop is true exactly when the query is non-aggregate, has a
\* limit, and printed_count has reached it; for an aggregate query it is false
\* whatever the limit.
C2_ShouldStopExactly ==
    pc \in {"read", "evaluate", "done"}
        => (should_stop <=> (~aggregate /\ IsSome(query.limit)
                             /\ printed_count >= Unwrap(query.limit)))

(***************************************************************************)
(* Leaf comparisons on every operator (query.rs 214-283): one leaf filter, *)
(* well-formed lines of which some lack the method or the query string.    *)
(***************************************************************************)
FilterOps == {"Lt", "Gt", "Eq", "Ne", "Re", "Nr"}

FilterLeaves ==
    { BinaryOpFilter(VSymbol(c), r, op) :
        c \in {"method", "query", "referrer", "status", "date"},
        r \in {VNull, VText(<<"G", "E", "T">>), VRegex(<<"^", "G">>), VDate(DateLiteral)},
        op \in FilterOps }

FilterQueries ==
    { RipLogQuery(Some(f), None, Some(<<ShowSymbol("ip")>>), None, None) : f \in FilterLeaves }

InitFilter ==
    /\ query \in FilterQueries
    /\ stream \in NonEmptySeqsUpTo({LineU, LineA, LineNoMethod, LineBadDate}, MaxLines)
    /\ InitEvaluator

SpecFilter == InitFilter /\ [][Next]_vars

\* The first record has been evaluated against a leaf filter whose lhs is a
\* symbol that resolves to no bytes on it.
MissingLhsEvaluated ==
    /\ pc = "read" /\ pos = 1
    /\ IsSome(query.filter)
    /\ Unwrap(query.filter).t = "bin"
    /\ Unwrap(query.filter).lhs.k = "Symbol"
    /\ IsNone(resolve_byte_value(record, Unwrap(query.filter).lhs))

\* C3: a leaf comparison whose lhs symbol is missing on the record is false
\* for lt, gt, eq with a non-null rhs, ne, re and nr; only eq Null is true.
C3_MissingLhsOnlyEqNull ==
    MissingLhsEvaluated
        => (passed = 1 <=> (Unwrap(query.filter).op = "Eq"
                            /\ Unwrap(query.filter).rhs.k = "Null"))

(***************************************************************************)
(* Missing values and malformed input (nginx.rs 8-118, 162-234).           *)
(***************************************************************************)
\* The line just tokenized carries the referrer "-".
DashReferrerTokenized ==
    pc = "evaluate" /\ stream[pos] \in {LineU, LineNoMethod}

\* C4: a record whose referrer is "-" in the log line has a missing referrer:
\* the column's binary extractor yields no value and `referrer = null` is true.
C4_DashReferrerIsMissing ==
    DashReferrerTokenized
        => /\ IsNone(extract_binary("referrer", record))
           /\ evaluate_eq(VSymbol("referrer"), VNull, record).res

\* C5: a line that lacks a required delimiter is skipped: after it the run
\* has not aborted and goes on to read what follows.
C5_MalformedLineSkipped ==
    (pos >= 1 /\ pc # "evaluate" /\ ~read_log_record_binary(stream[pos]).ok)
        => pc \in {"read", "done"}

\* The raw bytes of column c of the record do not decode to c's type.
Undecodable(c, rec) ==
    /\ Len(RawBytes(c, rec)) >= 1
    /\ IF c = "date" THEN IsNone(ParseDate(rec.date)) ELSE IsNone(ParseU64(RawBytes(c, rec)))

\* C6: when the bytes of the date column or of an integer column do not
\* decode, the typed accessor yields missing without failing, and an order
\* comparison of the filter on that column is false, as on an absent value.
C6_DecodeFailureIsMissing ==
    pc = "evaluate" =>
        \A c \in {"date", "status", "bytes"} :
            Undecodable(c, record) =>
                /\ ~extractor(c, record).panic
                /\ IsNone(extractor(c, record).val)
                /\ (/\ IsSome(query.filter)
                    /\ Unwrap(query.filter).t = "bin"
                    /\ Unwrap(query.filter).lhs = VSymbol(c)
                    /\ Unwrap(query.filter).op \in {"Lt", "Gt"})
                   => (~apply_filters(query, record).panic /\ ~apply_filters(query, record).res)

(***************************************************************************)
(* Validation against the schema (query.rs 12-86).                         *)
(***************************************************************************)
\* The symbols of a filter tree, left to right.
RECURSIVE FilterSymbols(_)
FilterSymbols(f) ==
    IF f.t = "bin"
    THEN (IF f.lhs.k = "Symbol" THEN <<f.lhs.s>> ELSE <<>>)
         \o (IF f.rhs.k = "Symbol" THEN <<f.rhs.s>> ELSE <<>>)
    ELSE FilterSymbols(f.f1) \o FilterSymbols(f.f2)

\* The symbols of a show clause: its symbols and the arguments, other than
\* "*", of its reducers.
RECURSIVE ShowSymbols(_)
ShowSymbols(elements) ==
    IF Len(elements) = 0 THEN <<>>
    ELSE (IF Head(elements).k = "Symbol"
             \/ (Head(elements).k = "Reducer" /\ Head(elements).symbol # "*")
          THEN <<Head(elements).symbol>> ELSE <<>>)
         \o ShowSymbols(Tail(elements))

\* Every symbol of the query in traversal order: filter, grouping, show.
QuerySymbols(q) ==
    (IF IsSome(q.filter) THEN FilterSymbols(Unwrap(q.filter)) ELSE <<>>)
    \o (IF IsSome(q.grouping) THEN Unwrap(q.grouping) ELSE <<>>)
    \o (IF IsSome(q.show) THEN ShowSymbols(Unwrap(q.show)) ELSE <<>>)

IsNoColumn(symbol) == symbol \notin ColumnSet

Offending(q) == SelectSeq(QuerySymbols(q), IsNoColumn)

\* C7: validate_riplog_query returns Ok iff every symbol of the filter, the
\* grouping and the show clause is a column; otherwise the error names the
\* first offending symbol in the order filter, grouping, show.
C7_ValidationNamesFirstOffender ==
    IsSome(validation) =>
        Unwrap(validation) = IF Len(Offending(query)) = 0 THEN Ok
                             ELSE Err(Head(Offending(query)))

\* A rejected query in which two different symbols are no columns.
C7_RejectedWithTwoOffenders ==
    /\ IsSome(validation)
    /\ ~Unwrap(validation).ok
    /\ \E i, j \in 1..Len(Offending(query)) : Offending(query)[i] # Offending(query)[j]

\* The show clause of the query has a reducer other than count on "*".
HasNonCountStar(q) ==
    /\ IsSome(q.show)
    /\ \E i \in 1..Len(Unwrap(q.show)) :
          /\ Unwrap(q.show)[i].k = "Reducer"
          /\ Unwrap(q.show)[i].symbol = "*"
          /\ Unwrap(q.show)[i].reducer # "count"

\* C8: a query whose show clause has sum(*), max(*) or avg(*) does not pass
\* validation and never reaches the evaluation of a record.
C8_StarOnlyForCount ==
    HasNonCountStar(query)
        => /\ IsSome(validation) => ~Unwrap(validation).ok
           /\ pc \in {"validate", "panicked"}
           /\ pc = "panicked" => panic = "validation"

(***************************************************************************)
(* The computed show (parser.rs 212-254), once QueryEvaluator::new has     *)
(* stored it in the query.                                                 *)
(***************************************************************************)
\* The show clause is written and holds column symbols only.
ShowsOnlySymbols(q) ==
    /\ IsSome(q.show)
    /\ \A i \in 1..Len(Unwrap(q.show)) : Unwrap(q.show)[i].k = "Symbol"

ShowsStar(q) ==
    /\ IsSome(q.show)
    /\ \E i \in 1..Len(Unwrap(q.show)) : is_star(Unwrap(q.show)[i])

ShowsReducer(q) ==
    /\ IsSome(q.show)
    /\ \E i \in 1..Len(Unwrap(q.show)) : is_reducer(Unwrap(q.show)[i])

\* C9: a show clause of column symbols only is computed as written when the
\* query has no grouping; with a grouping G it is computed as G's symbols
\* followed by count(*).
C9_SymbolsOnlyShowPlan ==
    (IsSome(query.computed_show) /\ ShowsOnlySymbols(query))
        => Unwrap(query.computed_show) =
              IF IsSome(query.grouping)
              THEN SymbolsOf(Unwrap(query.grouping)) \o <<ShowReducer("count", "*")>>
              ELSE Unwrap(query.show)

\* A grouped query with a show clause of two symbols has its computed show.
C9_GroupedSymbolsOnlyPlanned ==
    /\ pc = "read"
    /\ IsSome(query.computed_show)
    /\ ShowsOnlySymbols(query)
    /\ Len(Unwrap(query.show)) >= 2
    /\ IsSome(query.grouping)

\* C9 as stated: a show clause of column symbols only is computed as written,
\* whether or not a grouping is present.
C9_SymbolsOnlyAsWritten ==
    (IsSome(query.computed_show) /\ ShowsOnlySymbols(query))
        => Unwrap(query.computed_show) = Unwrap(query.show)

\* C10: for a query without grouping whose show clause contains "*" and no
\* reducer, the computed show is every schema column in schema order,
\* whatever symbols the show clause also contains.
C10_StarWithoutReducerIsAllColumns ==
    (/\ IsSome(query.computed_show)
     /\ IsNone(query.grouping)
     /\ ShowsStar(query)
     /\ ~ShowsReducer(query))
        => Unwrap(query.computed_show) = SymbolsOf(Columns)

\* An ungrouped query whose show clause holds "*" next to a column symbol
\* has its computed show.
C10_StarBesideSymbolPlanned ==
    /\ pc = "read"
    /\ IsSome(query.computed_show)
    /\ IsNone(query.grouping)
    /\ ShowsStar(query)
    /\ \E i \in 1..Len(Unwrap(query.show)) : Unwrap(query.show)[i].k = "Symbol"

\* C10 as stated: for a query without grouping whose show clause contains
\* "*", the computed show is every schema column, whatever else it contains.
C10_StarIsAllColumns ==
    (IsSome(query.computed_show) /\ IsNone(query.grouping) /\ ShowsStar(query))
        => Unwrap(query.computed_show) = SymbolsOf(Columns)

\* The reducers of a show clause, in the order written.
RECURSIVE ReducersOf(_)
ReducersOf(elements) ==
    IF Len(elements) = 0 THEN <<>>
    ELSE (IF Head(elements).k = "Reducer" THEN <<Head(elements)>> ELSE <<>>)
         \o ReducersOf(Tail(elements))

\* The grouping columns as show symbols; nothing without a grouping.
GroupingSymbols(q) ==
    IF IsSome(q.grouping)
    THEN [i \in 1..Len(Unwrap(q.grouping)) |-> ShowSymbol(Unwrap(q.grouping)[i])]
    ELSE <<>>

\* C11: a show clause with at least one reducer is computed, with grouping G,
\* as the symbols of G in order followed by the user's reducers in the order
\* written, and without grouping as exactly the user's reducers.
C11_ReducerShowPlan ==
    (IsSome(query.computed_show) /\ ShowsReducer(query))
        => Unwrap(query.computed_show)
              = GroupingSymbols(query) \o ReducersOf(Unwrap(query.show))

\* A grouped query whose show clause holds a column symbol and a reducer has
\* its computed show.
C11_GroupedReducerBesideSymbolPlanned ==
    /\ pc = "read"
    /\ IsSome(query.computed_show)
    /\ IsSome(query.grouping)
    /\ ShowsReducer(query)
    /\ \E i \in 1..Len(Unwrap(query.show)) : Unwrap(query.show)[i].k = "Symbol"

\* C12: a query without a show clause is computed, with no grouping, as every
\* schema column in schema order, and with grouping G as the symbols of G in
\* order followed by the single reducer count(*).
C12_NoShowPlan ==
    (IsSome(query.computed_show) /\ IsNone(query.show))
        => Unwrap(query.computed_show)
              = IF IsSome(query.grouping)
                THEN GroupingSymbols(query) \o <<ShowReducer("count", "*")>>
                ELSE << ShowSymbol("ip"), ShowSymbol("date"), ShowSymbol("method"),
                        ShowSymbol("path"), ShowSymbol("query"), ShowSymbol("status"),
                        ShowSymbol("bytes"), ShowSymbol("referrer"), ShowSymbol("user_agent") >>

\* A grouped query of two grouping columns and no show clause has its
\* computed show.
C12_GroupedNoShowPlanned ==
    /\ pc = "read"
    /\ IsSome(query.computed_show)
    /\ IsNone(query.show)
    /\ IsSome(query.grouping)
    /\ Len(Unwrap(query.grouping)) >= 2

\* C13: compute_show is idempotent: with the show clause replaced by the
\* computed show, compute_show yields the same computed show again.
C13_ComputeShowIdempotent ==
    IsSome(query.computed_show)
        => compute_show([query EXCEPT !.show = query.computed_show])
              = Unwrap(query.computed_show)

\* A grouped query with a written show clause has a computed show that
\* differs from what was written.
C13_RewrittenShowPlanned ==
    /\ pc = "read"
    /\ IsSome(query.computed_show)
    /\ IsSome(query.show)
    /\ IsSome(query.grouping)
    /\ query.computed_show # query.show

(***************************************************************************)
(* Ungrouped aggregation (query.rs 146-155, 423-541): reducers of every    *)
(* kind over well-formed lines, of which one has a bytes and a status      *)
(* field that do not decode and no method.                                 *)
(***************************************************************************)
ReduceLines == {LineU, LineA, LineNoMethod}

ReduceShowElements ==
    { ShowReducer("count", "*"), ShowReducer("count", "method"),
      ShowReducer("sum", "bytes"), ShowReducer("max", "bytes"),
      ShowReducer("avg", "bytes"), ShowReducer("max", "status") }

ReduceQueries ==
    { RipLogQuery(None, None, Some(s), None, None) :
        s \in NonEmptySeqsUpTo(ReduceShowElements, MaxShowLen) }

InitReduce ==
    /\ query \in ReduceQueries
    /\ stream \in SeqsUpTo(ReduceLines, MaxLines)
    /\ InitEvaluator

SpecReduce == InitReduce /\ [][Next]_vars

\* The records evaluated so far, tokenized afresh from the lines read.
EvaluatedRecords == [i \in 1..pos |-> read_log_record_binary(stream[i]).rec]

\* The integer value of column col of a record, when it has one.
IntegerOf(col, rec) ==
    IF ColumnType(col) = "Integer" /\ Len(RawBytes(col, rec)) >= 1
    THEN ParseU64(RawBytes(col, rec)) ELSE None

PresentIn(col, recs) == {i \in 1..Len(recs) : IsSome(IntegerOf(col, recs[i]))}

RECURSIVE SumOver(_, _, _)
SumOver(col, recs, idx) ==
    IF idx = {} THEN 0
    ELSE LET i == CHOOSE j \in idx : TRUE
         IN Unwrap(IntegerOf(col, recs[i])) + SumOver(col, recs, idx \ {i})

\* What a reducer of this kind on this symbol is to report after recs.
ReferenceResult(kind, symbol, recs) ==
    CASE kind = "count" ->
            IF symbol = "*" THEN Len(recs)
            ELSE Cardinality({i \in 1..Len(recs) : Len(RawBytes(symbol, recs[i])) >= 1})
      [] kind = "sum" -> SumOver(symbol, recs, PresentIn(symbol, recs))
      [] kind = "max" ->
            IF PresentIn(symbol, recs) = {} THEN 0
            ELSE CHOOSE m \in {Unwrap(IntegerOf(symbol, recs[i])) : i \in PresentIn(symbol, recs)} :
                    \A i \in PresentIn(symbol, recs) : Unwrap(IntegerOf(symbol, recs[i])) <= m
      [] kind = "avg" ->
            IF PresentIn(symbol, recs) = {} THEN 0
            ELSE SumOver(symbol, recs, PresentIn(symbol, recs))
                 \div Cardinality(PresentIn(symbol, recs))

\* An ungrouped aggregate query without filter between two records or at the
\* end of its run.
UngroupedFold ==
    /\ pc \in {"read", "done"}
    /\ aggregate
    /\ IsNone(query.grouping)
    /\ IsNone(query.filter)

\* C14: after any sequence of records is applied to a fresh reducer, each
\* field reducer's result is its reference: count(*) the number of records,
\* count(col) the records with bytes in col, sum(col) the sum of col's
\* present integer values, max(col) the largest of them or 0, avg(col) the
\* sum divided by their number with integer division, or 0.
C14_ReducersMatchReference ==
    UngroupedFold =>
        /\ Len(global_reducer) = Len(ReducersOf(Unwrap(query.show)))
        /\ \A i \in 1..Len(global_reducer) :
              field_result(global_reducer[i])
                 = ReferenceResult(ReducersOf(Unwrap(query.show))[i].reducer,
                                   ReducersOf(Unwrap(query.show))[i].symbol,
                                   EvaluatedRecords)

\* Two records have been folded into an avg whose sum their number does not
\* divide.
C14_AvgOfTwoWithRemainder ==
    /\ UngroupedFold
    /\ pos >= 2
    /\ \E i \in 1..Len(global_reducer) :
          /\ global_reducer[i].kind = "avg"
          /\ global_reducer[i].count = 2
          /\ global_reducer[i].sum % 2 = 1

\* The reducer after the records of recs are applied to it in order.
RECURSIVE FoldRecords(_, _)
FoldRecords(reducer, recs) ==
    IF Len(recs) = 0 THEN reducer
    ELSE FoldRecords(reducer_apply_record(reducer, Head(recs)).reducer, Tail(recs))

ResultsOf(reducer) == [i \in 1..Len(reducer) |-> field_result(reducer[i])]

\* The orders in which n records can be evaluated.
OrdersOf(n) == {p \in [1..n -> 1..n] : \A i, j \in 1..n : i # j => p[i] # p[j]}

\* C15: for an ungrouped aggregate query, the results of the global reducer
\* after a multiset of records are the same for every order in which the
\* records are evaluated.
C15_FoldOrderIndependent ==
    UngroupedFold =>
        \A p \in OrdersOf(pos) :
            ResultsOf(FoldRecords(create_reducer(query),
                                  [i \in 1..pos |-> EvaluatedRecords[p[i]]]))
               = ResultsOf(global_reducer)

\* Two different records have been folded into a max reducer that found a
\* value in both, the larger one first.
C15_TwoRecordsLargerFirst ==
    /\ UngroupedFold
    /\ pos = 2
    /\ IsSome(IntegerOf("bytes", EvaluatedRecords[1]))
    /\ IsSome(IntegerOf("bytes", EvaluatedRecords[2]))
    /\ Unwrap(IntegerOf("bytes", EvaluatedRecords[1])) > Unwrap(IntegerOf("bytes", EvaluatedRecords[2]))
    /\ \E i \in 1..Len(global_reducer) :
          global_reducer[i].kind = "max" /\ global_reducer[i].symbol = "bytes"


(***************************************************************************)
(* Grouped, sorted and limited aggregate runs.                             *)
(***************************************************************************)
MaxGroupLines == 3

GroupLines == {LineU, LineA, LineNoMethod}

GroupGroupings == {<<"ip">>, <<"method">>, <<"ip", "query">>}

GroupShows ==
    {None,
     Some(<<ShowReducer("count", "method"), ShowReducer("count", "*")>>),
     Some(<<ShowReducer("sum", "bytes")>>)}

\* QuerySortElement::new: a field label and ASC or DESC.
QuerySortElement(field, order) == [field |-> field, order |-> order]

GroupSorts ==
    {None,
     Some(QuerySortElement("ip", "ASC")),
     Some(QuerySortElement("method", "DESC")),
     Some(QuerySortElement("count(*)", "ASC")),
     Some(QuerySortElement("count(*)", "DESC")),
     Some(QuerySortElement("sum(bytes)", "DESC"))}

GroupQueries ==
    {RipLogQuery(None, g, s, srt, l) :
        g \in Options(GroupGroupings), s \in GroupShows, srt \in GroupSorts, l \in Options({0, 1})}

InitGroup ==
    /\ query \in GroupQueries
    /\ stream \in SeqsUpTo(GroupLines, MaxGroupLines)
    /\ InitEvaluator

SpecGroup == InitGroup /\ [][Next]_vars


\* The group key a record should get: at each grouping column its bytes, or
\* "null" when the record has none (the grouping columns here are text).
ReferenceKey(groupings, rec) ==
    [i \in 1..Len(groupings) |->
        IF IsSome(get_symbol_bytes(rec, groupings[i]))
        THEN Unwrap(get_symbol_bytes(rec, groupings[i]))
        ELSE NullText]

\* Some grouping column is missing in the record.
MissesGrouping(groupings, rec) ==
    \E i \in 1..Len(groupings) : IsNone(get_symbol_bytes(rec, groupings[i]))

GroupedFold ==
    pc \in {"read", "done"} /\ aggregate /\ IsSome(query.grouping) /\ IsNone(query.filter)

\* C16: in a grouped query the group map has exactly one entry per distinct
\* key of the records folded so far, where the key holds "null" at every
\* grouping column the record misses: records that miss the same column and
\* agree on the other grouping columns share one entry.
C16_MissingGroupsAsNull ==
    GroupedFold =>
        DOMAIN group_map =
            {ReferenceKey(Unwrap(query.grouping), EvaluatedRecords[i]) : i \in 1..pos}

\* C16 witness: two records that miss a grouping column were folded into one
\* entry, next to a record that has the column.
C16_TwoMissingShareOneGroup ==
    /\ GroupedFold
    /\ pos = 3
    /\ \E i, j \in 1..pos :
          /\ i # j
          /\ MissesGrouping(Unwrap(query.grouping), EvaluatedRecords[i])
          /\ MissesGrouping(Unwrap(query.grouping), EvaluatedRecords[j])
          /\ ReferenceKey(Unwrap(query.grouping), EvaluatedRecords[i])
               = ReferenceKey(Unwrap(query.grouping), EvaluatedRecords[j])
    /\ Cardinality(DOMAIN group_map) = 2


\* The data rows printed so far, in order.
RowLines == SelectSeq(out, LAMBDA l : l.t = "row")

\* The group key a printed row of a grouped aggregate shows: its leading
\* cells, one per grouping column.
KeyOfRow(row) == [i \in 1..Len(Unwrap(query.grouping)) |-> row.cells[i].s]

\* The sort label names a grouping column or a reducer of the computed show.
SortNamesGroup == IsSome(query.sort) /\ index_of(Unwrap(query.grouping), Unwrap(query.sort).field) >= 0

ReducerLabel(fr) == fr.kind \o "(" \o fr.symbol \o ")"

SortNamesReducer ==
    /\ IsSome(query.sort)
    /\ \E i \in 1..Len(create_reducer(query)) :
          ReducerLabel(create_reducer(query)[i]) = Unwrap(query.sort).field

\* The result, in the group of key, of the reducer the sort label names.
NamedReducerResult(key) ==
    LET rs == group_map[key]
        i == CHOOSE i \in 1..Len(rs) : ReducerLabel(rs[i]) = Unwrap(query.sort).field
    IN field_result(rs[i])

\* The order of two groups by the sort label: a grouping column as a string,
\* a reducer by its result.
CompareByLabel(key1, key2) ==
    IF SortNamesGroup
    THEN LET i == index_of(Unwrap(query.grouping), Unwrap(query.sort).field) + 1
         IN CmpBytes(key1[i], key2[i])
    ELSE IF NamedReducerResult(key1) < NamedReducerResult(key2) THEN -1
         ELSE IF NamedReducerResult(key1) > NamedReducerResult(key2) THEN 1 ELSE 0

SortedGroupedDone ==
    /\ pc = "done"
    /\ aggregate
    /\ IsSome(query.grouping)
    /\ SortNamesGroup \/ SortNamesReducer

\* C17: after finalize of a grouped aggregate whose sort label names a
\* projected field, consecutive rows never decrease by that label for ASC and
\* never increase for DESC; a reducer label compares by the result of the
\* reducer it names.
C17_RowsSortedByNamedField ==
    SortedGroupedDone =>
        \A n \in 1..(Len(RowLines) - 1) :
            LET c == CompareByLabel(KeyOfRow(RowLines[n]), KeyOfRow(RowLines[n + 1]))
            IN IF Unwrap(query.sort).order = "DESC" THEN c >= 0 ELSE c <= 0


\* The number of result rows of an aggregate query: one per group, or the one
\* row of the global reducer.
ResultRows == IF IsSome(query.grouping) THEN Cardinality(DOMAIN group_map) ELSE 1

\* The groups finalize did not print.
UnprintedKeys == DOMAIN group_map \ {KeyOfRow(RowLines[n]) : n \in 1..Len(RowLines)}

\* C18: finalize of an aggregate query with limit N prints min(N, R) rows,
\* R the number of result rows; with a sort field no group left out sorts
\* before a printed one.
C18_AggregateLimitTruncates ==
    (pc = "done" /\ aggregate /\ IsSome(query.limit)) =>
        /\ Len(RowLines) = Min(Unwrap(query.limit), ResultRows)
        /\ (IsSome(query.grouping) /\ IsSome(sort)) =>
              \A n \in 1..Len(RowLines) : \A k \in UnprintedKeys :
                  sort_grouped(sort, KeyOfRow(RowLines[n]), group_map[KeyOfRow(RowLines[n])],
                               k, group_map[k]) <= 0


\* C19: when the input holds no record, the output of every query is the
\* header with its two rules followed by the closing rule, with no data row.
C19_EmptyInputHeaderAndFooterOnly ==
    (pc = "done" /\ Len(stream) = 0) =>
        [i \in 1..Len(out) |-> out[i].t] = <<"top", "header", "mid", "close">>


(***************************************************************************)
(* Runs over lines with a value longer than the width cap.                 *)
(***************************************************************************)
\* A request whose path, "/" and WidthCap more bytes, is longer than the cap.
ReqLong == <<"G", "E", "T", " ", "/">> \o [i \in 1..WidthCap |-> "p"] \o <<" ", "H">>

LineLong == LogLine(<<"C">>, DateA, ReqLong, S200, B42, Dash, UA, EOL)

WidthLines == {LineU, LineA, LineLong}

WidthShows ==
    {None,
     Some(<<ShowSymbol("path")>>),
     Some(<<ShowSymbol("ip"), ShowSymbol("path")>>),
     Some(<<ShowReducer("count", "*")>>)}

WidthQueries ==
    {RipLogQuery(None, g, s, None, l) :
        g \in Options({<<"path">>}), s \in WidthShows, l \in Options({1})}

InitWidth ==
    /\ query \in WidthQueries
    /\ stream \in SeqsUpTo(WidthLines, MaxLines)
    /\ InitEvaluator

SpecWidth == InitWidth /\ [][Next]_vars

\* The width a field starts with: the schema's for a column, 10 for a reducer.
DeclaredSize(f) == IF f.kind = "Reduced" THEN ReducerSize ELSE get_size(f.symbol)

\* The cells of the data rows printed so far.
RowCells == UNION {{RowLines[n].cells[i] : i \in 1..Len(RowLines[n].cells)} : n \in 1..Len(RowLines)}

\* C20: the width of every output field stays between its declared width and
\* 50, and a value longer than 50 bytes is printed in a cell of width 50.
C20_WidthWithinCap ==
    /\ \A i \in 1..Len(fields) :
          fields[i].size >= DeclaredSize(fields[i]) /\ fields[i].size <= WidthCap
    /\ \A c \in RowCells : Len(c.s) > WidthCap => c.w = WidthCap


(***************************************************************************)
(* The query parser (parser.rs 9-198): nom parsers over the query string,  *)
(* a sequence of characters. Every parser returns whether it matched, the  *)
(* value, the input left, and whether it panicked on the way.              *)
(***************************************************************************)
POk(val, rest) == [ok |-> TRUE, val |-> val, rest |-> rest, panic |-> FALSE]
PErr(i) == [ok |-> FALSE, val |-> <<>>, rest |-> i, panic |-> FALSE]
PPanic(i) == [ok |-> FALSE, val |-> <<>>, rest |-> i, panic |-> TRUE]

\* alt!: the first alternative that matches; a panic ends the parse.
Alt(r1, r2) == IF r1.ok \/ r1.panic THEN r1 ELSE r2

IsUpper(c) == ByteCode(c) >= 65 /\ ByteCode(c) <= 90
IsAlphanumeric(c) ==
    IsDigit(c) \/ IsUpper(c) \/ (ByteCode(c) >= 97 /\ ByteCode(c) <= 122)

\* char::to_lowercase and str::to_lowercase, on ASCII.
LowerChar(c) == IF IsUpper(c) THEN AsciiTable[ByteCode(c) + 1] ELSE c
LowerChars(s) == [i \in 1..Len(s) |-> LowerChar(s[i])]

\* The String of a sequence of characters.
RECURSIVE StringOf(_)
StringOf(s) == IF Len(s) = 0 THEN "" ELSE Head(s) \o StringOf(Tail(s))

is_whitespace(chr) == chr = " "
is_symbol(chr) == IsAlphanumeric(chr) \/ chr = "_"
is_symbol_or_parens(chr) ==
    IsAlphanumeric(chr) \/ chr = "_" \/ chr = "(" \/ chr = ")" \/ chr = "*"

\* The length of the longest prefix of i whose characters all satisfy P.
PrefixLen(i, P(_)) ==
    CHOOSE n \in 0..Len(i) :
        /\ \A k \in 1..n : P(i[k])
        /\ n = Len(i) \/ ~P(i[n + 1])

\* take_while!: the longest such prefix, empty included.
take_while(i, P(_)) ==
    POk(SubSeq(i, 1, PrefixLen(i, P)), SubSeq(i, PrefixLen(i, P) + 1, Len(i)))

\* nom::digit: one or more decimal digits.
digit(i) == IF PrefixLen(i, IsDigit) = 0 THEN PErr(i) ELSE take_while(i, IsDigit)

\* sp of ws!: spaces, tabs and line ends are skipped.
sp(i) == take_while(i, LAMBDA c : c \in {" ", "\t", "\r", "\n"}).rest

\* tag_s!
tag(i, t) ==
    IF Len(i) >= Len(t) /\ SubSeq(i, 1, Len(t)) = t
    THEN POk(t, SubSeq(i, Len(t) + 1, Len(i))) ELSE PErr(i)

\* tag_no_case_s!
tag_no_case(i, t) ==
    IF Len(i) >= Len(t) /\ LowerChars(SubSeq(i, 1, Len(t))) = LowerChars(t)
    THEN POk(SubSeq(i, 1, Len(t)), SubSeq(i, Len(t) + 1, Len(i))) ELSE PErr(i)

\* delimited!(char!(open), take_until_s!(close), char!(close))
delimited(i, open, close) ==
    IF Len(i) = 0 \/ Head(i) # open THEN PErr(i)
    ELSE IF index_of(Tail(i), close) < 0 THEN PErr(i)
    ELSE POk(SubSeq(Tail(i), 1, index_of(Tail(i), close)),
             SubSeq(Tail(i), index_of(Tail(i), close) + 2, Len(i) - 1))

parse_filter_operator(i) ==
    Alt(tag(i, <<"<">>), Alt(tag(i, <<">">>), Alt(tag(i, <<"=">>),
    Alt(tag(i, <<"!", "=">>), Alt(tag(i, <<"~">>), tag(i, <<"!", "~">>))))))

\* The QueryFilterBinaryOp of a matched operator.
OperatorOf(t) ==
    CASE t = <<"<">> -> "Lt" [] t = <<">">> -> "Gt" [] t = <<"=">> -> "Eq"
      [] t = <<"!", "=">> -> "Ne" [] t = <<"~">> -> "Re" [] t = <<"!", "~">> -> "Nr"

parse_null_operand(i) ==
    LET made(r) == IF r.ok THEN POk(VNull, r.rest) ELSE r
    IN made(tag_no_case(i, <<"n", "u", "l", "l">>))

parse_boolean_operand(i) ==
    LET made(r) == IF r.ok THEN POk(VBoolean(LowerChars(r.val) = <<"t", "r", "u", "e">>), r.rest) ELSE r
    IN made(Alt(tag_no_case(i, <<"t", "r", "u", "e">>), tag_no_case(i, <<"f", "a", "l", "s", "e">>)))

parse_text_operand(i) ==
    LET made(r) == IF r.ok THEN POk(VText(r.val), r.rest) ELSE r
    IN made(delimited(i, "\"", "\""))

\* Regex::new(..).unwrap(): the patterns of the model are valid.
parse_regex_operand(i) ==
    LET made(r) == IF r.ok THEN POk(VRegex(r.val), r.rest) ELSE PErr(i)
    IN IF Len(i) > 0 /\ Head(i) = "r" THEN made(delimited(Tail(i), "\"", "\"")) ELSE PErr(i)

\* create_date_from_string, the local zone being UTC: "mm-dd-yyyy",
\* "mm-dd-yyyy HH:MM:SS" or "mm-dd-yyyy HH:MM:SS +zzzz" with two-digit
\* fields and a four-digit year; None where the unwrap panics.
create_date_from_string(date) ==
    LET s == IF Len(date) <= 10 THEN date \o <<" ", "0", "0", ":", "0", "0", ":", "0", "0">> ELSE date
        zoned == Len(date) > 20
        shaped ==
            /\ Len(s) = (IF zoned THEN 25 ELSE 19)
            /\ s[3] = "-" /\ s[6] = "-" /\ s[11] = " " /\ s[14] = ":" /\ s[17] = ":"
            /\ \A k \in {1, 2, 4, 5, 7, 8, 9, 10, 12, 13, 15, 16, 18, 19} : IsDigit(s[k])
            /\ zoned => (s[20] = " " /\ s[21] \in {"+", "-"} /\ \A k \in 22..25 : IsDigit(s[k]))
        decoded ==
            LET m == DigitsValue(SubSeq(s, 1, 2), 0)
                d == DigitsValue(SubSeq(s, 4, 5), 0)
                y == DigitsValue(SubSeq(s, 7, 10), 0)
                hh == DigitsValue(SubSeq(s, 12, 13), 0)
                mi == DigitsValue(SubSeq(s, 15, 16), 0)
                ss == DigitsValue(SubSeq(s, 18, 19), 0)
                off == IF zoned
                       THEN (IF s[21] = "-" THEN -1 ELSE 1)
                            * (DigitsValue(SubSeq(s, 22, 23), 0) * 3600 + DigitsValue(SubSeq(s, 24, 25), 0) * 60)
                       ELSE 0
            IN IF m < 1 \/ m > 12 \/ y < 1971 \/ y > 2036 \/ d < 1 \/ d > DaysInMonth(y, m)
                  \/ hh > 23 \/ mi > 59 \/ ss > 59
               THEN None
               ELSE Some(DaysFromCivil(y, m, d) * 86400 + hh * 3600 + mi * 60 + ss - off)
    IN IF shaped THEN decoded ELSE None

parse_date_operand(i) ==
    LET dated(r, t) == IF IsSome(t) THEN POk(VDate(Unwrap(t)), r.rest) ELSE PPanic(i)
        made(r) == IF r.ok THEN dated(r, create_date_from_string(r.val)) ELSE PErr(i)
    IN IF Len(i) > 0 /\ Head(i) = "d" THEN made(delimited(Tail(i), "\"", "\"")) ELSE PErr(i)

parse_symbol_operand(i) ==
    LET made(r) == POk(VSymbol(StringOf(LowerChars(r.val))), r.rest)
    IN made(take_while(i, is_symbol))

parse_int_operand(i) ==
    LET made(r) == IF r.ok THEN POk(VInt(r.val), r.rest) ELSE r
    IN made(digit(i))

parse_double_operand(i) ==
    LET fraction(whole, d) ==
            IF d.ok THEN POk(VDouble(whole \o <<".">> \o d.val), d.rest) ELSE PErr(i)
        pointed(whole, t) == IF t.ok THEN fraction(whole, digit(t.rest)) ELSE PErr(i)
        made(r) == IF r.ok THEN pointed(r.val, tag(r.rest, <<".">>)) ELSE PErr(i)
    IN made(digit(i))

parse_filter_operand(i) ==
    Alt(parse_text_operand(i), Alt(parse_regex_operand(i), Alt(parse_date_operand(i),
    Alt(parse_boolean_operand(i), Alt(parse_null_operand(i), Alt(parse_symbol_operand(i),
    Alt(parse_double_operand(i), parse_int_operand(i))))))))


\* The error of a sequence of parsers: that of its failed part, at input i.
Fail(r, i) == IF r.panic THEN PPanic(i) ELSE PErr(i)

\* ws!(tuple!(operand, operator, operand)): blanks are skipped around each part.
parse_binary_op_filter(i) ==
    LET third(l, o, r) ==
            IF r.ok THEN POk(BinaryOpFilter(l.val, r.val, OperatorOf(o.val)), sp(r.rest)) ELSE Fail(r, i)
        second(l, o) == IF o.ok THEN third(l, o, parse_filter_operand(sp(o.rest))) ELSE Fail(o, i)
        first(l) == IF l.ok THEN second(l, parse_filter_operator(sp(l.rest))) ELSE Fail(l, i)
    IN first(parse_filter_operand(sp(i)))

RECURSIVE parse_filter(_)
RECURSIVE parse_or_fallback_filter(_)
RECURSIVE parse_or_filter(_)
RECURSIVE parse_and_fallback_filter(_)
RECURSIVE parse_and_filter(_)
RECURSIVE parse_unit_filter(_)
RECURSIVE parse_parenthetical_filter(_)

parse_parenthetical_filter(i) ==
    LET third(f, c) == IF c.ok THEN POk(f.val, sp(c.rest)) ELSE Fail(c, i)
        second(f) == IF f.ok THEN third(f, tag(sp(f.rest), <<")">>)) ELSE Fail(f, i)
        first(o) == IF o.ok THEN second(parse_filter(sp(o.rest))) ELSE Fail(o, i)
    IN first(tag(sp(i), <<"(">>))

parse_unit_filter(i) == Alt(parse_parenthetical_filter(i), parse_binary_op_filter(i))

parse_and_filter(i) ==
    LET third(u, f) == IF f.ok THEN POk(AndFilter(u.val, f.val), sp(f.rest)) ELSE Fail(f, i)
        second(u, a) == IF a.ok THEN third(u, parse_and_fallback_filter(sp(a.rest))) ELSE Fail(a, i)
        first(u) ==
            IF u.ok
            THEN second(u, Alt(tag_no_case(sp(u.rest), <<"a", "n", "d">>), tag(sp(u.rest), <<"&", "&">>)))
            ELSE Fail(u, i)
    IN first(parse_unit_filter(sp(i)))

parse_and_fallback_filter(i) == Alt(parse_and_filter(i), parse_unit_filter(i))

parse_or_filter(i) ==
    LET third(u, f) == IF f.ok THEN POk(OrFilter(u.val, f.val), sp(f.rest)) ELSE Fail(f, i)
        second(u, a) == IF a.ok THEN third(u, parse_or_fallback_filter(sp(a.rest))) ELSE Fail(a, i)
        first(u) ==
            IF u.ok
            THEN second(u, Alt(tag_no_case(sp(u.rest), <<"o", "r">>), tag(sp(u.rest), <<"|", "|">>)))
            ELSE Fail(u, i)
    IN first(parse_and_fallback_filter(sp(i)))

parse_or_fallback_filter(i) == Alt(parse_or_filter(i), parse_and_fallback_filter(i))

\* ws!(parse_or_fallback_filter)
parse_filter(i) ==
    LET made(r) == IF r.ok THEN POk(r.val, sp(r.rest)) ELSE Fail(r, i)
    IN made(parse_or_fallback_filter(sp(i)))

\* ws!(map!(take_while!(is_symbol), to_lowercase))
parse_grouping_symbol(i) ==
    LET made(r) == POk(StringOf(LowerChars(r.val)), sp(r.rest))
    IN made(take_while(sp(i), is_symbol))

parse_show_all(i) ==
    LET made(r) == IF r.ok THEN POk(ShowAll, r.rest) ELSE r
    IN made(tag(i, <<"*">>))

parse_show_symbol(i) ==
    LET made(r) == POk(ShowSymbol(StringOf(LowerChars(r.val))), r.rest)
    IN made(take_while(i, is_symbol))

parse_reducer(i) ==
    Alt(tag(i, <<"c", "o", "u", "n", "t">>), Alt(tag(i, <<"s", "u", "m">>),
    Alt(tag(i, <<"m", "a", "x">>), tag(i, <<"a", "v", "g">>))))

parse_show_reducer(i) ==
    LET named(k, s) ==
            IF s.ok THEN POk(ShowReducer(StringOf(k.val), StringOf(LowerChars(s.val))), s.rest)
            ELSE PErr(i)
        made(k) == IF k.ok THEN named(k, delimited(k.rest, "(", ")")) ELSE PErr(i)
    IN made(parse_reducer(i))

parse_show_element(i) ==
    Alt(parse_show_all(i), Alt(parse_show_reducer(i), parse_show_symbol(i)))

\* ws!(parse_show_element)
parse_show_item(i) ==
    LET made(r) == IF r.ok THEN POk(r.val, sp(r.rest)) ELSE Fail(r, i)
    IN made(parse_show_element(sp(i)))

\* The element parser of the two lists of the grammar.
list_element(kind, i) ==
    IF kind = "group" THEN parse_grouping_symbol(i) ELSE parse_show_item(i)

\* separated_list!(tag!(","), ws!(element)): the elements after the first,
\* from input i with res collected; it stops, keeping i, where the comma or
\* the next element fails or consumes nothing.
RECURSIVE separated_rest(_, _, _)
separated_rest(i, res, kind) ==
    LET next(i2, e) ==
            IF e.panic THEN PPanic(i)
            ELSE IF ~e.ok \/ Len(e.rest) = Len(i2) THEN POk(res, i)
            ELSE separated_rest(e.rest, Append(res, e.val), kind)
        after(c) == IF ~c.ok THEN POk(res, i) ELSE next(c.rest, list_element(kind, c.rest))
    IN after(tag(i, <<",">>))

\* separated_list!: no element gives the empty list; a first element that
\* consumes nothing is an error.
separated_list(i, kind) ==
    LET first(e) ==
            IF e.panic THEN PPanic(i)
            ELSE IF ~e.ok THEN POk(<<>>, i)
            ELSE IF Len(e.rest) = Len(i) THEN PErr(i)
            ELSE separated_rest(e.rest, <<e.val>>, kind)
    IN first(list_element(kind, i))

parse_grouping(i) ==
    LET made(l) == IF l.ok THEN POk(l.val, l.rest) ELSE Fail(l, i)
        listed(t) == IF t.ok THEN made(separated_list(t.rest, "group")) ELSE PErr(i)
    IN listed(tag_no_case(i, <<"g", "r", "o", "u", "p">>))

parse_show(i) ==
    LET made(l) == IF l.ok THEN POk(l.val, l.rest) ELSE Fail(l, i)
        listed(t) == IF t.ok THEN made(separated_list(t.rest, "show")) ELSE PErr(i)
    IN listed(tag_no_case(i, <<"s", "h", "o", "w">>))

\* QuerySortOrdering::from_string
from_string(order) == IF LowerChars(order) = <<"d", "e", "s", "c">> THEN "DESC" ELSE "ASC"

\* parse_sort: the one sorting of the list, QuerySortElement::new(field, order)
\* with order.map(from_string).unwrap_or(ASC).
parse_sort(i) ==
    LET ordered(f, o) ==
            POk(QuerySortElement(StringOf(LowerChars(f.val)), IF o.ok THEN from_string(o.val) ELSE "ASC"),
                o.rest)
        direction(f, j) ==
            ordered(f, Alt(tag_no_case(j, <<"a", "s", "c">>), tag_no_case(j, <<"d", "e", "s", "c">>)))
        field(f) == direction(f, take_while(f.rest, is_whitespace).rest)
        made(t) ==
            IF t.ok THEN field(take_while(take_while(t.rest, is_whitespace).rest, is_symbol_or_parens))
            ELSE PErr(i)
    IN made(tag_no_case(i, <<"s", "o", "r", "t">>))

\* parse_limit: limit.parse::<usize>().unwrap()
parse_limit(i) ==
    LET counted(d) == IF d.ok THEN POk(DigitsValue(d.val, 0), d.rest) ELSE PErr(i)
        made(t) == IF t.ok THEN counted(digit(take_while(t.rest, is_whitespace).rest)) ELSE PErr(i)
    IN made(tag_no_case(i, <<"l", "i", "m", "i", "t">>))


\* opt!: None, at the same input, where the parser fails.
Opt(r, i) ==
    IF r.panic THEN PPanic(i) ELSE IF r.ok THEN POk(Some(r.val), r.rest) ELSE POk(None, i)

\* The result of ws!(parser), r being the parser's result after the blanks.
Ws(r) == IF r.ok THEN POk(r.val, sp(r.rest)) ELSE r

\* The input after opt!(tag_no_case_s!("|")).
bar(i) == Opt(tag(i, <<"|">>), i).rest

\* parse_riplog_query: the five optional stages in their fixed order, each
\* followed by an optional bar.
parse_riplog_query(i) ==
    LET limited(f, g, s, o, l) ==
            IF l.panic THEN PPanic(i)
            ELSE POk(RipLogQuery(f.val, g.val, s.val, o.val, l.val), l.rest)
        sorted(f, g, s, o) ==
            IF o.panic THEN PPanic(i)
            ELSE limited(f, g, s, o, Opt(Ws(parse_limit(sp(bar(o.rest)))), bar(o.rest)))
        shown(f, g, s) ==
            IF s.panic THEN PPanic(i)
            ELSE sorted(f, g, s, Opt(Ws(parse_sort(sp(bar(s.rest)))), bar(s.rest)))
        grouped(f, g) ==
            IF g.panic THEN PPanic(i)
            ELSE shown(f, g, Opt(Ws(parse_show(sp(bar(g.rest)))), bar(g.rest)))
        filtered(f) ==
            IF f.panic THEN PPanic(i)
            ELSE grouped(f, Opt(Ws(parse_grouping(sp(bar(f.rest)))), bar(f.rest)))
    IN filtered(Opt(Ws(parse_filter(sp(i))), i))

\* run_query: parser::parse_query(query), that is
\* parse_riplog_query(CompleteStr(&query)).unwrap().1; the input left is
\* dropped. Until this step the variable query holds the query string.
Parse ==
    /\ pc = "parse"
    /\ LET parsed(r) ==
               IF r.ok
               THEN query' = r.val /\ pc' = "validate" /\ panic' = panic
               ELSE query' = query /\ Panicked("parse")
       IN parsed(parse_riplog_query(query))
    /\ UNCHANGED <<stream, pos, record, validation, aggregate, printed_count, group_map,
                   global_reducer, fields, sort, out, passed, returned>>

(***************************************************************************)
(* Runs that start from the query string.                                  *)
(***************************************************************************)
MaxStages == 2

StatusWord == <<"s", "t", "a", "t", "u", "s">>
StageNumberFilter == StatusWord \o <<" ", "=", " ", "2", "0", "0">>
StageTextFilter == StatusWord \o <<" ", "=", " ", "\"", "2", "0", "0", "\"">>
StageGroup == <<"g", "r", "o", "u", "p", " ", "i", "p">>
StageShow == <<"s", "h", "o", "w", " ", "i", "p", ",", " ">> \o StatusWord
StageShowCount == <<"S", "H", "O", "W", " ", "c", "o", "u", "n", "t", "(", "*", ")">>
StageSort == <<"s", "o", "r", "t", " ", "i", "p", " ", "d", "e", "s", "c">>
StageLimit == <<"l", "i", "m", "i", "t", " ", "1">>
StageJunk == <<"!", "!">>

Stages ==
    {StageNumberFilter, StageTextFilter, StageGroup, StageShow, StageShowCount,
     StageSort, StageLimit, StageJunk}

\* The stages of a query string, joined by " | ".
RECURSIVE Piped(_)
Piped(stages) ==
    IF Len(stages) = 0 THEN <<>>
    ELSE IF Len(stages) = 1 THEN Head(stages)
    ELSE Head(stages) \o <<" ", "|", " ">> \o Piped(Tail(stages))

QueryStrings == {Piped(s) : s \in SeqsUpTo(Stages, MaxStages)}

ParseLines == {LineU, LineA}

InitParse ==
    /\ query \in QueryStrings
    /\ stream \in SeqsUpTo(ParseLines, MaxLines)
    /\ pos = 0
    /\ record = EmptyRecord
    /\ validation = None
    /\ aggregate = FALSE
    /\ printed_count = 0
    /\ group_map = <<>>
    /\ global_reducer = <<>>
    /\ fields = <<>>
    /\ sort = None
    /\ out = <<>>
    /\ passed = 0
    /\ pc = "parse"
    /\ panic = ""
    /\ returned = None

NextParse == Parse \/ Validate \/ New \/ ReadLine \/ Evaluate \/ Finalize

SpecParse == InitParse /\ [][NextParse]_vars


\* The query string starts with the filter `status = 200`.
HasNumberOperand(text) ==
    /\ Len(text) >= Len(StageNumberFilter)
    /\ SubSeq(text, 1, Len(StageNumberFilter)) = StageNumberFilter

\* C21: a query string whose filter is `status = 200` parses to a filter
\* whose right operand is an Int (or Double) carrying the bytes "200"; the
\* parsed query passes validation and its filter accepts exactly the records
\* whose status bytes are "200".
C21_NumberOperandIsInt ==
    [][(pc = "parse" /\ HasNumberOperand(query)) =>
          /\ pc' = "validate"
          /\ IsSome(query'.filter)
          /\ Unwrap(query'.filter).rhs.k \in {"Int", "Double"}
          /\ Unwrap(query'.filter).rhs.b = <<"2", "0", "0">>
          /\ validate_riplog_query(query').ok
          /\ \A l \in ParseLines :
                apply_filters(query', read_log_record_binary(l).rec).res
                    <=> (read_log_record_binary(l).rec.status = <<"2", "0", "0">>)]_vars

\* C22: the query string is parsed into a query that goes on to validation
\* only when the parser consumed all of it; otherwise the run ends in the
\* parser.
C22_ParsedOnlyWhenAllConsumed ==
    [][(pc = "parse" /\ pc' = "validate") => parse_riplog_query(query).rest = <<>>]_vars


(***************************************************************************)
(* Runs over lines whose request lines differ.                             *)
(***************************************************************************)
ReqNoProtocol == <<"G", "E", "T", " ", "/", "u">>
ReqQueryNoProtocol == <<"G", "E", "T", " ", "/", "a", "?", "x">>
ReqLateQuestion == <<"G", "E", "T", " ", "/", "u", " ", "H", "?", "x">>
ReqTwoQuestions == <<"G", "E", "T", " ", "/", "a", "?", "x", " ", "H", "?">>

Requests == {ReqU, ReqA, ReqNone, ReqNoProtocol, ReqQueryNoProtocol, ReqLateQuestion, ReqTwoQuestions}

RequestLine(request) == LogLine(<<"A">>, DateA, request, S200, B42, Dash, UA, EOL)

RequestQueries ==
    {RipLogQuery(None, None, s, None, None) :
        s \in {None, Some(<<ShowSymbol("path"), ShowSymbol("query")>>)}}

InitRequest ==
    /\ query \in RequestQueries
    /\ stream \in SeqsUpTo({RequestLine(r) : r \in Requests}, MaxLines)
    /\ InitEvaluator

SpecRequest == InitRequest /\ [][Next]_vars

\* The request line of the line read last.
LastRequest == CHOOSE r \in Requests : stream[pos] = RequestLine(r)

\* The request target: what follows the first space of the request line, up
\* to the next space or the end.
TargetOf(request) ==
    LET after == SubSeq(request, index_of(request, " ") + 2, Len(request))
    IN IF index_of(after, " ") >= 0 THEN SubSeq(after, 1, index_of(after, " ")) ELSE after

\* The target up to its first '?', and the target from that '?' on.
TargetPath(target) ==
    IF index_of(target, "?") >= 0 THEN SubSeq(target, 1, index_of(target, "?")) ELSE target
TargetQuery(target) ==
    IF index_of(target, "?") >= 0 THEN SubSeq(target, index_of(target, "?") + 1, Len(target)) ELSE <<>>

\* C23: once a line whose request line contains a space is read, the
\* tokenizer has set path to the request target up to its first '?' (the
\* whole target when it has none) and query to the rest of the target,
\* wherever '?' and spaces occur in the request line.
C23_PathAndQuerySplitTarget ==
    (pos >= 1 /\ index_of(LastRequest, " ") >= 0) =>
        /\ panic # "tokenize"
        /\ record.path = TargetPath(TargetOf(LastRequest))
        /\ record.query = TargetQuery(TargetOf(LastRequest))
        /\ record.path \o record.query = TargetOf(LastRequest)


(***************************************************************************)
(* Runs over lines with and without the trailing newline.                  *)
(***************************************************************************)
UASpaced == <<"M", " ", "5">>

\* What read_until(b'\n') yields: the line with its newline, or without it
\* for the last line of a file that does not end in one.
EolParts == {[referrer |-> r, user_agent |-> u, eol |-> e] :
                r \in {Dash, RefR}, u \in {UA, UASpaced}, e \in {EOL, <<>>}}

EolLine(p) == LogLine(<<"A">>, DateA, ReqU, S200, B42, p.referrer, p.user_agent, p.eol)

EolQueries ==
    {RipLogQuery(None, None, s, None, None) :
        s \in {None, Some(<<ShowSymbol("referrer"), ShowSymbol("user_agent")>>)}}

InitEol ==
    /\ query \in EolQueries
    /\ stream \in SeqsUpTo({EolLine(p) : p \in EolParts}, MaxLines)
    /\ InitEvaluator

SpecEol == InitEol /\ [][Next]_vars

\* The parts the line read last was written from.
LastParts == CHOOSE p \in EolParts : stream[pos] = EolLine(p)

\* C24: once a well-formed line is read, with or without a trailing newline,
\* user_agent is the content of the last quoted field and referrer the
\* content of the quoted field before it, both without their quotes.
C24_QuotedFieldsStripped ==
    pos >= 1 =>
        /\ panic # "tokenize"
        /\ record.user_agent = LastParts.user_agent
        /\ record.referrer = LastParts.referrer


(***************************************************************************)
(* The reusable record on its own: tokenizations and typed accessor calls  *)
(* in any order.                                                           *)
(***************************************************************************)
\* BinaryNginxLogRecord::parsed_bytes as log.rs has it (267-278): a first
\* call fills the bytes slot and then returns the status slot, unwrapped.
parsed_bytes_log(rec) ==
    IF IsSome(rec.parsed_record["bytes"])
    THEN Accessed(rec, Unwrap(rec.parsed_record["bytes"]))
    ELSE LET filled(r) ==
                 IF IsSome(r.parsed_record["status"])
                 THEN Accessed(r, Unwrap(r.parsed_record["status"]))
                 ELSE AccessPanic(r)
         IN filled([rec EXCEPT !.parsed_record["bytes"] = Some(OptInt(rec.bytes))])

RecordLines == {LineU, LineA, LineNoMethod}

\* The calls alternate a bit, so that a repeated call is a step of its own.
Turn == IF IsNone(returned) THEN 0 ELSE 1 - Unwrap(returned).turn

Returned(c, a) ==
    /\ record' = a.rec
    /\ returned' = Some([column |-> c, val |-> a.val, turn |-> Turn])
    /\ IF a.panic THEN Panicked("accessor") ELSE pc' = pc /\ panic' = panic

\* read_log_record_binary on the reusable record.
Tokenize ==
    /\ pc = "record"
    /\ \E l \in RecordLines : record' = read_log_record_binary(l).rec
    /\ UNCHANGED <<query, stream, pos, validation, aggregate, printed_count, group_map,
                   global_reducer, fields, sort, out, passed, pc, panic, returned>>

\* A typed accessor of nginx.rs is called.
CallAccessor ==
    /\ pc = "record"
    /\ \E c \in ColumnSet : Returned(c, extractor(c, record))
    /\ UNCHANGED <<query, stream, pos, validation, aggregate, printed_count, group_map,
                   global_reducer, fields, sort, out, passed>>

\* parsed_bytes of log.rs is called.
CallBytesLog ==
    /\ pc = "record"
    /\ Returned("bytes", parsed_bytes_log(record))
    /\ UNCHANGED <<query, stream, pos, validation, aggregate, printed_count, group_map,
                   global_reducer, fields, sort, out, passed>>

InitRecord ==
    /\ query = None
    /\ stream = <<>>
    /\ pos = 0
    /\ record \in {read_log_record_binary(l).rec : l \in RecordLines}
    /\ validation = None
    /\ aggregate = FALSE
    /\ printed_count = 0
    /\ group_map = <<>>
    /\ global_reducer = <<>>
    /\ fields = <<>>
    /\ sort = None
    /\ out = <<>>
    /\ passed = 0
    /\ pc = "record"
    /\ panic = ""
    /\ returned = None

NextRecord == Tokenize \/ CallAccessor \/ CallBytesLog

SpecRecord == InitRecord /\ [][NextRecord]_vars

\* The decode of a column's raw bytes.
TypedDecode(c, rec) ==
    CASE c \in {"ip", "path"} -> Some(RawBytes(c, rec))
      [] c = "date" -> ParseDate(RawBytes(c, rec))
      [] c \in {"status", "bytes"} -> OptInt(RawBytes(c, rec))
      [] OTHER -> OptText(RawBytes(c, rec))

\* The step is a call of an accessor: the turn bit flipped.
AccessorCalled ==
    /\ IsSome(returned')
    /\ IF IsNone(returned) THEN TRUE ELSE Unwrap(returned').turn # Unwrap(returned).turn

\* C25: a tokenization clears every slot of the parsed cache; the first call
\* of a column's accessor fills that column's slot alone, with the decode of
\* the column's raw bytes, and returns it; a later call returns the slot's
\* value and changes nothing.
C25_AccessorFillsOwnSlot ==
    [][IF ~AccessorCalled
       THEN record'.parsed_record = EmptyParsed
       ELSE LET c == Unwrap(returned').column IN
            /\ pc' # "panicked"
            /\ IF IsNone(record.parsed_record[c])
               THEN /\ record' = [record EXCEPT !.parsed_record[c] = Some(TypedDecode(c, record))]
                    /\ Unwrap(returned').val = TypedDecode(c, record)
               ELSE /\ record' = record
                    /\ Unwrap(returned').val = Unwrap(record.parsed_record[c])]_vars

(***************************************************************************)
(* Order comparisons of the filter (query.rs 238-268, 337-347).            *)
(***************************************************************************)
OrderLhs ==
    {VSymbol(c) : c \in ColumnSet}
        \cup {VText(<<>>), VText(<<"G", "E", "T">>), VInt(<<"2", "0", "0">>)}

OrderRhs ==
    {VNull, VText(<<>>), VText(<<"G", "E", "T">>), VInt(<<"2", "0", "0">>),
     VSymbol("method"), VSymbol("status"), VDate(DateLiteral)}

\* a < b in the lexicographic order of byte strings.
LexLess(a, b) ==
    \E i \in 1..Len(b) :
        /\ i <= Len(a) + 1
        /\ \A j \in 1..(i - 1) : a[j] = b[j]
        /\ (i = Len(a) + 1 \/ ByteCode(a[i]) < ByteCode(b[i]))

BothPresent(o1, o2, rec) ==
    IsSome(resolve_byte_value(rec, o1)) /\ IsSome(resolve_byte_value(rec, o2))

\* What lt (want = -1) or gt (want = 1) is to return on the record.
OrderReference(o1, o2, rec, want) ==
    IF o2.k = "Date"
    THEN /\ o1.k = "Symbol"
         /\ ColumnType(o1.s) = "Date"
         /\ IsSome(ParseDate(RawBytes(o1.s, rec)))
         /\ IF want < 0 THEN Unwrap(ParseDate(RawBytes(o1.s, rec))) < o2.d
                        ELSE Unwrap(ParseDate(RawBytes(o1.s, rec))) > o2.d
    ELSE /\ BothPresent(o1, o2, rec)
         /\ IF want < 0
            THEN LexLess(Unwrap(resolve_byte_value(rec, o1)), Unwrap(resolve_byte_value(rec, o2)))
            ELSE LexLess(Unwrap(resolve_byte_value(rec, o2)), Unwrap(resolve_byte_value(rec, o1)))

ExactlyOne(a, b, c) == (a /\ ~b /\ ~c) \/ (~a /\ b /\ ~c) \/ (~a /\ ~b /\ c)

OrderAsClaimed(o1, o2, rec) ==
    LET agrees(lt, gt, eq) ==
            /\ ~lt.panic /\ ~gt.panic
            /\ lt.res <=> OrderReference(o1, o2, rec, -1)
            /\ gt.res <=> OrderReference(o1, o2, rec, 1)
            /\ BothPresent(o1, o2, rec) => ExactlyOne(lt.res, gt.res, eq.res)
    IN agrees(evaluate_lt(o1, o2, rec), evaluate_gt(o1, o2, rec), evaluate_eq(o1, o2, rec))

\* C26: lt and gt against a Date literal compare the decoded date of the lhs
\* date column chronologically and are false for any other lhs; against any
\* other rhs they compare the raw bytes of the two operands
\* lexicographically, so that of lt, gt and eq exactly one is true whenever
\* both operands are present.
C26_OrderComparisons ==
    pc = "evaluate" => \A o1 \in OrderLhs, o2 \in OrderRhs : OrderAsClaimed(o1, o2, record)

(***************************************************************************)
(* The order of the output (query.rs 108-139, 157-190).                    *)
(***************************************************************************)
\* The output opens with the top rule, the header row and the rule below it.
HeaderFirst ==
    /\ Len(out) >= 3
    /\ out[1].t = "top" /\ out[2].t = "header" /\ out[3].t = "mid"

\* C27: a finished run has emitted the top rule, the header row, one rule
\* below the header, then data rows only, then one closing rule as the last
\* line; an aggregate run has emitted nothing before finalize, and a run that
\* is not aggregate has emitted the header before its first record is read.
C27_OutputOrder ==
    /\ pc \in {"read", "evaluate"} => IF aggregate THEN out = <<>> ELSE HeaderFirst
    /\ pc = "done" =>
          /\ HeaderFirst
          /\ Len(out) >= 4
          /\ out[Len(out)].t = "close"
          /\ \A i \in 4..(Len(out) - 1) : out[i].t = "row"

\* An aggregate run has finished with two rows between header and closing rule.
C27_AggregateRunWithTwoRows ==
    pc = "done" /\ aggregate /\ Len(out) = 6 /\ pos >= 2

(***************************************************************************)
(* The reducer a result column reads (query.rs 587-596, 684-704, 851-862). *)
(***************************************************************************)
\* An ungrouped aggregate query without filter has printed its result row.
ReducedDone ==
    pc = "done" /\ aggregate /\ IsNone(query.grouping) /\ IsNone(query.filter)

\* The reducer elements of the computed show, in order: create_reducer makes
\* the i-th field reducer for the i-th of them.
ShownReducers == SelectSeq(Unwrap(query.computed_show), is_reducer)

\* C28: every reducer column of the result row carries the label kind(sym) of
\* its show element and shows the result of the field reducer created for
\* that element, the value of kind over sym on the records evaluated, also
\* when count(*) stands next to count(col).
C28_ColumnReadsOwnReducer ==
    ReducedDone =>
        /\ Len(RowLines) = 1
        /\ Len(RowLines[1].cells) = Len(ShownReducers)
        /\ \A i \in 1..Len(ShownReducers) :
              /\ out[2].labels[i] = ReducerLabel(global_reducer[i])
              /\ global_reducer[i].kind = ShownReducers[i].reducer
              /\ global_reducer[i].symbol = ShownReducers[i].symbol
              /\ RowLines[1].cells[i].s = U64ToString(field_result(global_reducer[i]))
              /\ RowLines[1].cells[i].s
                   = U64ToString(ReferenceResult(ShownReducers[i].reducer,
                                                 ShownReducers[i].symbol, EvaluatedRecords))

(***************************************************************************)
(* What evaluate leaves alone (query.rs 129-155, 192-200).                 *)
(***************************************************************************)
\* The record about to be evaluated does not satisfy the query's filter.
FilterRejects ==
    IsSome(query.filter) /\ ~evaluate_filter(Unwrap(query.filter), record).res

\* C29: evaluate on a record that does not pass the filter leaves
\* printed_count, the group map, the global reducer and the output as they
\* were; an evaluate of a query that is not aggregate never changes the group
\* map or the global reducer, and one of an aggregate query keeps
\* printed_count at 0.
C29_EvaluateFrame ==
    [][pc = "evaluate" =>
          /\ FilterRejects => UNCHANGED <<printed_count, group_map, global_reducer, out>>
          /\ ~aggregate => UNCHANGED <<group_map, global_reducer>>
          /\ aggregate => printed_count' = 0]_vars

\* An aggregate run has folded one record into its state and rejected
\* another that tokenized.
C29_RejectedAfterFold ==
    /\ pc = "read" /\ pos = 2 /\ passed = 1
    /\ aggregate
    /\ IsSome(query.filter)
    /\ \A i \in 1..pos : read_log_record_binary(stream[i]).ok
    /\ ~evaluate_filter(Unwrap(query.filter), read_log_record_binary(stream[2]).rec).res
    /\ ~evaluate_filter(Unwrap(query.filter), read_log_record_binary(stream[2]).rec).panic
    /\ \E i \in 1..Len(global_reducer) : field_result(global_reducer[i]) > 0

(***************************************************************************)
(* The group map of a grouped count (query.rs 146-155, 313-319, 447-466).  *)
(***************************************************************************)
\* A grouped query whose computed show holds count(*), between two records
\* or at the end of its run.
GroupedCount ==
    /\ pc \in {"read", "done"}
    /\ aggregate
    /\ IsSome(query.grouping)
    /\ \E i \in 1..Len(create_reducer(query)) :
          ReducerLabel(create_reducer(query)[i]) = "count(*)"

\* The records evaluated so far that satisfy the filter.
PassedRecords ==
    {i \in 1..pos :
        IsSome(query.filter) => evaluate_filter(Unwrap(query.filter), EvaluatedRecords[i]).res}

\* The count(*) of the entry of key.
CountStar(key) ==
    LET rs == group_map[key]
        i == CHOOSE i \in 1..Len(rs) : ReducerLabel(rs[i]) = "count(*)"
    IN field_result(rs[i])

RECURSIVE SumCountStar(_)
SumCountStar(keys) ==
    IF keys = {} THEN 0
    ELSE LET k == CHOOSE k \in keys : TRUE IN CountStar(k) + SumCountStar(keys \ {k})

\* C30: in a grouped query with count(*) the group map holds exactly one
\* entry per distinct group key of the records that passed the filter, every
\* entry's count(*) is at least 1, and the count(*) of all entries add up to
\* the number of records that passed.
C30_GroupCountsAddUp ==
    GroupedCount =>
        /\ DOMAIN group_map
             = {ReferenceKey(Unwrap(query.grouping), EvaluatedRecords[i]) : i \in PassedRecords}
        /\ \A key \in DOMAIN group_map : CountStar(key) >= 1
        /\ SumCountStar(DOMAIN group_map) = Cardinality(PassedRecords)
        /\ passed = Cardinality(PassedRecords)

\* Two records passed the filter into one group while the filter was set.
C30_TwoPassedShareOneGroup ==
    /\ GroupedCount
    /\ IsSome(query.filter)
    /\ pos = 2
    /\ Cardinality(PassedRecords) = 2
    /\ Cardinality(DOMAIN group_map) = 1

====
